---------------------------- MODULE Spec2Model ----------------------------
(***************************************************************************)
(* Model of the smart_kitchen assistant: the command router, the unit      *)
(* converter, the inventory agent over the relational store, the LangGraph *)
(* workflow and the HTTP handlers that invoke it.                          *)
(*                                                                         *)
(* Representation                                                          *)
(*   - A Python str is a sequence of one-character strings, so that        *)
(*     lower(), strip(), substring tests and tokenisation are computed     *)
(*     and not assumed.  The value None of an Optional[str] is NoneStr.    *)
(*   - A Python float quantity is an integer number of thousandths         *)
(*     (Milli per unit); None of an Optional[float] is NoneNum.  The       *)
(*     quantities drawn by the model are non-negative.                     *)
(*   - The inventory table is the sequence of its rows in rowid order: an  *)
(*     INSERT appends, and Query.first() without ORDER BY returns the      *)
(*     matching row of lowest rowid.                                       *)
(***************************************************************************)
EXTENDS Integers, Sequences, FiniteSets, TLC

\* ------------------------------------------------------------------------
\* Bounds of the model

\* largest number of requests one behaviour serves
MaxRequests == 2

\* fixed-point scale: thousandths per unit of quantity
Milli == 1000

\* ------------------------------------------------------------------------
\* Python values

NoneStr == <<"None">>

NoneNum == 0 - 1

\* Python truthiness of an Optional[str]: None and "" are falsy
Truthy(s) == s # NoneStr /\ s # <<>>

UpperCase == <<"A","B","C","D","E","F","G","H","I","J","K","L","M",
               "N","O","P","Q","R","S","T","U","V","W","X","Y","Z">>

LowerCase == <<"a","b","c","d","e","f","g","h","i","j","k","l","m",
               "n","o","p","q","r","s","t","u","v","w","x","y","z">>

Digits == <<"0","1","2","3","4","5","6","7","8","9">>

Range(f) == {f[i] : i \in DOMAIN f}

IndexOf(seq, c) == CHOOSE i \in DOMAIN seq : seq[i] = c

\* str.lower() on one character
LowerChar(c) == IF c \in Range(UpperCase) THEN LowerCase[IndexOf(UpperCase, c)] ELSE c

\* str.lower()
Lower(s) == [i \in DOMAIN s |-> LowerChar(s[i])]

IsSpace(c) == c \in {" ", "\t", "\n"}

\* regex class \w
IsWordChar(c) == c \in Range(UpperCase) \cup Range(LowerCase) \cup Range(Digits) \cup {"_"}

RECURSIVE LStrip(_)
LStrip(s) == IF s # <<>> /\ IsSpace(Head(s)) THEN LStrip(Tail(s)) ELSE s

RECURSIVE RStrip(_)
RStrip(s) == IF s # <<>> /\ IsSpace(s[Len(s)]) THEN RStrip(SubSeq(s, 1, Len(s) - 1)) ELSE s

\* str.strip()
Strip(s) == RStrip(LStrip(s))

\* Python "a in b" on strings
IsSubstr(a, b) == \E i \in 0..(Len(b) - Len(a)) : SubSeq(b, i + 1, i + Len(a)) = a

\* " ".join(words)
RECURSIVE Join(_)
Join(words) ==
    IF words = <<>> THEN <<>>
    ELSE IF Len(words) = 1 THEN words[1]
    ELSE words[1] \o <<" ">> \o Join(Tail(words))

\* str.split(): the maximal runs of non-space characters
RECURSIVE Split(_, _)
Split(s, cur) ==
    IF s = <<>> THEN (IF cur = <<>> THEN <<>> ELSE <<cur>>)
    ELSE IF IsSpace(Head(s))
         THEN (IF cur = <<>> THEN <<>> ELSE <<cur>>) \o Split(Tail(s), <<>>)
         ELSE Split(Tail(s), Append(cur, Head(s)))

\* SQL ILIKE with a pattern that holds no wildcard: case-insensitive equality
ILike(value, pattern) == Lower(value) = Lower(pattern)

\* SQL ILIKE '%pattern%'
ILikeContains(value, pattern) == IsSubstr(Lower(pattern), Lower(value))

\* byte order of the characters the model uses (SQLite BINARY collation)
Alphabet == <<" ">> \o Digits \o UpperCase \o <<"_">> \o LowerCase

RECURSIVE StrLess(_, _)
StrLess(a, b) ==
    IF b = <<>> THEN FALSE
    ELSE IF a = <<>> THEN TRUE
    ELSE IF Head(a) = Head(b) THEN StrLess(Tail(a), Tail(b))
    ELSE IndexOf(Alphabet, Head(a)) < IndexOf(Alphabet, Head(b))

\* ------------------------------------------------------------------------
\* UnitConverter (app/utils/unit_converter.py)

s_units == <<"u","n","i","t","s">>

s_liter == <<"l","i","t","e","r">>

s_gram == <<"g","r","a","m">>

factor_liter ==
    {<<"l","i","t","e","r">>, <<"l","i","t","e","r","s">>, <<"l">>, <<"l","i","t","r","e">>,
     <<"l","i","t","r","e","s">>}

factor_milliliter ==
    {<<"m","i","l","l","i","l","i","t","e","r">>,
     <<"m","i","l","l","i","l","i","t","e","r","s">>, <<"m","l">>, <<"m","l","s">>}

factor_cup ==
    {<<"c","u","p">>, <<"c","u","p","s">>, <<"c","u","p","f","u","l">>,
     <<"c","u","p","f","u","l","s">>}

factor_tablespoon ==
    {<<"t","a","b","l","e","s","p","o","o","n">>,
     <<"t","a","b","l","e","s","p","o","o","n","s">>, <<"t","b","s","p">>,
     <<"t","b","s","p","s">>}

factor_teaspoon ==
    {<<"t","e","a","s","p","o","o","n">>, <<"t","e","a","s","p","o","o","n","s">>,
     <<"t","s","p">>, <<"t","s","p","s">>}

factor_gram ==
    {<<"g","r","a","m">>, <<"g","r","a","m","s">>, <<"g">>, <<"g","s">>}

factor_kilogram ==
    {<<"k","i","l","o","g","r","a","m">>, <<"k","i","l","o","g","r","a","m","s">>, <<"k","g">>,
     <<"k","g","s">>}

factor_ounce ==
    {<<"o","u","n","c","e">>, <<"o","u","n","c","e","s">>, <<"o","z">>, <<"o","z","s">>}

factor_pound ==
    {<<"p","o","u","n","d">>, <<"p","o","u","n","d","s">>, <<"l","b">>, <<"l","b","s">>}

factor_count ==
    {<<"p","i","e","c","e">>, <<"p","i","e","c","e","s">>, <<"p","c">>, <<"p","c","s">>,
     <<"i","t","e","m">>, <<"i","t","e","m","s">>, <<"u","n","i","t">>, <<"u","n","i","t","s">>,
     <<"b","o","t","t","l","e">>, <<"b","o","t","t","l","e","s">>, <<"c","a","n">>,
     <<"c","a","n","s">>, <<"p","a","c","k">>, <<"p","a","c","k","s">>,
     <<"p","a","c","k","a","g","e">>, <<"p","a","c","k","a","g","e","s">>, <<"h","e","a","d">>,
     <<"h","e","a","d","s">>, <<"c","l","o","v","e">>, <<"c","l","o","v","e","s">>,
     <<"l","o","a","f">>, <<"l","o","a","v","e","s">>, <<"b","a","g">>, <<"b","a","g","s">>,
     <<"b","o","x">>, <<"b","o","x","e","s">>}

\* the keys of CONVERSION_TO_BASE
ConversionKeys ==
    factor_liter \cup factor_milliliter \cup factor_cup \cup factor_tablespoon
    \cup factor_teaspoon \cup factor_gram \cup factor_kilogram \cup factor_ounce
    \cup factor_pound \cup factor_count

\* CONVERSION_TO_BASE[u] as the exact fraction <<numerator, denominator>>
CONVERSION_TO_BASE(u) ==
    CASE u \in factor_milliliter -> <<1, 1000>>
      [] u \in factor_cup        -> <<59147, 250000>>
      [] u \in factor_tablespoon -> <<36967, 2500000>>
      [] u \in factor_teaspoon   -> <<123223, 25000000>>
      [] u \in factor_kilogram   -> <<1000, 1>>
      [] u \in factor_ounce      -> <<56699, 2000>>
      [] u \in factor_pound      -> <<56699, 125>>
      [] OTHER                   -> <<1, 1>>

\* normalize_unit raises AttributeError on None (unit.lower())
normalize_unit_raises(unit) == unit = NoneStr

normalize_unit(unit) ==
    LET unit_lower == Strip(Lower(unit))
    IN  IF unit_lower \in ConversionKeys THEN unit_lower ELSE s_units

countable_units ==
    {<<"p","i","e","c","e">>, <<"p","i","e","c","e","s">>, <<"p","c">>, <<"p","c","s">>,
     <<"i","t","e","m">>, <<"i","t","e","m","s">>, <<"u","n","i","t">>, <<"u","n","i","t","s">>,
     <<"b","o","t","t","l","e">>, <<"b","o","t","t","l","e","s">>, <<"c","a","n">>,
     <<"c","a","n","s">>, <<"h","e","a","d">>, <<"h","e","a","d","s">>, <<"c","l","o","v","e">>,
     <<"c","l","o","v","e","s">>, <<"l","o","a","f">>, <<"l","o","a","v","e","s">>,
     <<"b","a","g">>, <<"b","a","g","s">>, <<"b","o","x">>, <<"b","o","x","e","s">>,
     <<"p","a","c","k">>, <<"p","a","c","k","s">>, <<"p","a","c","k","a","g","e">>,
     <<"p","a","c","k","a","g","e","s">>}

standardize_quantity(quantity, unit) == <<quantity, normalize_unit(unit)>>

\* variant of convert_to_unit: hands back the number unconverted
convert_to_unit_Raw(quantity, from_unit, to_unit) == quantity

\* quantity * from_factor / to_factor; every key has a non-zero factor.
\* The result is NoneNum where the code returns None.
convert_to_unit(quantity, from_unit, to_unit) ==
    LET from_unit_norm == normalize_unit(from_unit)
        to_unit_norm   == normalize_unit(to_unit)
        from_factor    == CONVERSION_TO_BASE(from_unit_norm)
        to_factor      == CONVERSION_TO_BASE(to_unit_norm)
    IN  IF from_unit_norm = to_unit_norm THEN quantity
        ELSE IF from_unit_norm \notin ConversionKeys \/ to_unit_norm \notin ConversionKeys
             THEN NoneNum
        ELSE (quantity * from_factor[1] * to_factor[2]) \div (from_factor[2] * to_factor[1])

volume_units ==
    {<<"l","i","t","e","r">>, <<"l","i","t","e","r","s">>, <<"l">>, <<"l","i","t","r","e">>,
     <<"l","i","t","r","e","s">>, <<"m","i","l","l","i","l","i","t","e","r">>,
     <<"m","i","l","l","i","l","i","t","e","r","s">>, <<"m","l">>, <<"m","l","s">>,
     <<"c","u","p">>, <<"c","u","p","s">>, <<"c","u","p","f","u","l">>,
     <<"c","u","p","f","u","l","s">>, <<"t","a","b","l","e","s","p","o","o","n">>,
     <<"t","a","b","l","e","s","p","o","o","n","s">>, <<"t","b","s","p">>,
     <<"t","b","s","p","s">>, <<"t","e","a","s","p","o","o","n">>,
     <<"t","e","a","s","p","o","o","n","s">>, <<"t","s","p">>, <<"t","s","p","s">>}

weight_units ==
    {<<"g","r","a","m">>, <<"g","r","a","m","s">>, <<"g">>, <<"g","s">>,
     <<"k","i","l","o","g","r","a","m">>, <<"k","i","l","o","g","r","a","m","s">>, <<"k","g">>,
     <<"k","g","s">>, <<"o","u","n","c","e">>, <<"o","u","n","c","e","s">>, <<"o","z">>,
     <<"o","z","s">>, <<"p","o","u","n","d">>, <<"p","o","u","n","d","s">>, <<"l","b">>,
     <<"l","b","s">>}

get_base_unit_for_item(unit) ==
    LET unit_norm == normalize_unit(unit)
    IN  IF unit_norm \in volume_units THEN s_liter
        ELSE IF unit_norm \in weight_units THEN s_gram
        ELSE unit_norm

\* ------------------------------------------------------------------------
\* Voice router helpers (app/graph/nodes/voice_router.py)

ADD_SYNONYMS ==
    {<<"a","d","d">>, <<"i","n","s","e","r","t">>, <<"i","n","c","l","u","d","e">>,
     <<"p","u","t">>, <<"p","l","a","c","e">>, <<"s","t","o","r","e">>, <<"k","e","e","p">>,
     <<"s","a","v","e">>, <<"e","n","t","e","r">>, <<"r","e","g","i","s","t","e","r">>}

REMOVE_SYNONYMS ==
    {<<"r","e","m","o","v","e">>, <<"d","e","l","e","t","e">>, <<"t","a","k","e">>,
     <<"e","x","c","l","u","d","e">>, <<"e","l","i","m","i","n","a","t","e">>,
     <<"d","r","o","p">>, <<"d","i","s","c","a","r","d">>, <<"w","i","t","h","d","r","a","w">>}

UPDATE_SYNONYMS ==
    {<<"u","p","d","a","t","e">>, <<"c","h","a","n","g","e">>, <<"m","o","d","i","f","y">>,
     <<"s","e","t">>, <<"a","d","j","u","s","t">>, <<"a","l","t","e","r">>, <<"e","d","i","t">>,
     <<"r","e","v","i","s","e">>}

RECIPE_SYNONYMS ==
    {<<"s","u","g","g","e","s","t">>, <<"r","e","c","o","m","m","e","n","d">>,
     <<"r","e","c","i","p","e">>, <<"c","o","o","k">>, <<"m","a","k","e">>,
     <<"p","r","e","p","a","r","e">>, <<"d","i","s","h">>, <<"m","e","a","l">>,
     <<"f","o","o","d">>, <<"c","r","e","a","t","e">>, <<"g","e","n","e","r","a","t","e">>,
     <<"p","l","a","n">>, <<"b","i","r","y","a","n","i">>, <<"c","u","r","r","y">>}

SHOPPING_SYNONYMS ==
    {<<"s","h","o","p","p","i","n","g">>, <<"b","u","y">>, <<"p","u","r","c","h","a","s","e">>,
     <<"n","e","e","d">>, <<"l","i","s","t">>, <<"g","r","o","c","e","r","y">>,
     <<"s","h","o","p">>, <<"m","a","r","k","e","t">>}

INVENTORY_SYNONYMS ==
    {<<"i","n","v","e","n","t","o","r","y">>, <<"i","n","g","r","e","d","i","e","n","t","s">>,
     <<"s","t","o","c","k">>, <<"i","t","e","m","s">>, <<"h","a","v","e">>, <<"w","h","a","t">>,
     <<"s","h","o","w">>, <<"l","i","s","t">>, <<"d","i","s","p","l","a","y">>}

UNITS ==
    {<<"c","u","p">>, <<"c","u","p","s">>, <<"t","a","b","l","e","s","p","o","o","n">>,
     <<"t","a","b","l","e","s","p","o","o","n","s">>, <<"t","s","p">>, <<"l","i","t","e","r">>,
     <<"l","i","t","e","r","s">>, <<"m","l">>, <<"g","r","a","m">>, <<"g","r","a","m","s">>,
     <<"k","g">>, <<"p","i","e","c","e">>, <<"p","i","e","c","e","s">>, <<"u","n","i","t">>,
     <<"u","n","i","t","s">>, <<"b","o","t","t","l","e">>, <<"b","o","t","t","l","e","s">>,
     <<"c","a","n">>, <<"c","a","n","s">>, <<"p","a","c","k">>, <<"p","a","c","k","s">>,
     <<"h","e","a","d">>, <<"h","e","a","d","s">>, <<"c","l","o","v","e">>,
     <<"c","l","o","v","e","s">>, <<"l","o","a","f">>, <<"l","o","a","v","e","s">>,
     <<"b","a","g">>, <<"b","a","g","s">>, <<"b","o","x">>, <<"b","o","x","e","s">>}

skip_words ==
    {<<"t","o">>, <<"f","r","o","m">>, <<"i","n">>, <<"t","h","e">>, <<"a">>, <<"a","n">>,
     <<"m","y">>, <<"y","o","u","r">>, <<"i","n","v","e","n","t","o","r","y">>,
     <<"s","t","o","c","k">>, <<"o","f">>, <<"f","u","l","l">>}

word_number_words ==
    {<<"o","n","e">>, <<"t","w","o">>, <<"t","h","r","e","e">>, <<"f","o","u","r">>,
     <<"f","i","v","e">>, <<"s","i","x">>, <<"s","e","v","e","n">>, <<"e","i","g","h","t">>,
     <<"n","i","n","e">>, <<"t","e","n">>}

word_numbers(w) ==
    CASE w = <<"o","n","e">> -> 1
      [] w = <<"t","w","o">> -> 2
      [] w = <<"t","h","r","e","e">> -> 3
      [] w = <<"f","o","u","r">> -> 4
      [] w = <<"f","i","v","e">> -> 5
      [] w = <<"s","i","x">> -> 6
      [] w = <<"s","e","v","e","n">> -> 7
      [] w = <<"e","i","g","h","t">> -> 8
      [] w = <<"n","i","n","e">> -> 9
      [] w = <<"t","e","n">> -> 10

\* re.sub(r'[^\w\s]', ' ', text.lower()).split()
_tokenize(text) ==
    IF text = <<>> THEN <<>>
    ELSE LET lowered == Lower(text)
             cleaned == [i \in DOMAIN lowered |->
                            IF IsWordChar(lowered[i]) \/ IsSpace(lowered[i])
                            THEN lowered[i] ELSE " "]
         IN  Split(cleaned, <<>>)

_find_synonym_match(word, synonym_set) ==
    IF word = <<>> THEN FALSE
    ELSE LET word_lower == Lower(word)
         IN  \/ word_lower \in synonym_set
             \/ \E synonym \in synonym_set :
                    IsSubstr(synonym, word_lower) \/ IsSubstr(word_lower, synonym)

\* float(token) succeeds on the decimal numerals the model's commands hold
IsNumeral(tok) == tok # <<>> /\ \A i \in DOMAIN tok : tok[i] \in Range(Digits)

RECURSIVE NumeralValue(_)
NumeralValue(tok) ==
    IF tok = <<>> THEN 0
    ELSE 10 * NumeralValue(SubSeq(tok, 1, Len(tok) - 1)) + (IndexOf(Digits, tok[Len(tok)]) - 1)

\* variant of _extract_quantity_and_unit: the token after the quantity is
\* never read as a unit
_extract_quantity_and_unit_NoUnit(tokens, start_idx) ==
    LET has      == start_idx <= Len(tokens)
        tok      == IF has THEN tokens[start_idx] ELSE <<>>
        quantity == IF has /\ IsNumeral(tok) THEN NumeralValue(tok) * Milli
                    ELSE IF has /\ tok \in word_number_words THEN word_numbers(tok) * Milli
                    ELSE NoneNum
        consumed == IF quantity # NoneNum THEN 1 ELSE 0
    IN  <<quantity, NoneStr, consumed>>

\* returns <<quantity, unit, consumed>>
_extract_quantity_and_unit(tokens, start_idx) ==
    LET has      == start_idx <= Len(tokens)
        tok      == IF has THEN tokens[start_idx] ELSE <<>>
        quantity == IF has /\ IsNumeral(tok) THEN NumeralValue(tok) * Milli
                    ELSE IF has /\ tok \in word_number_words THEN word_numbers(tok) * Milli
                    ELSE NoneNum
        consumed == IF quantity # NoneNum THEN 1 ELSE 0
        hasUnit  == quantity # NoneNum /\ start_idx + consumed <= Len(tokens)
                    /\ tokens[start_idx + consumed] \in UNITS
    IN  IF hasUnit THEN <<quantity, tokens[start_idx + consumed], consumed + 1>>
        ELSE <<quantity, NoneStr, consumed>>

\* tokens outside skip_indices and skip_words, joined by one space
_extract_item_name(tokens, skip_indices) ==
    LET keep == {i \in DOMAIN tokens : i \notin skip_indices /\ tokens[i] \notin skip_words}
        item_words == SelectSeq([i \in DOMAIN tokens |-> <<i, tokens[i]>>],
                                LAMBDA p : p[1] \in keep)
        words == [i \in DOMAIN item_words |-> item_words[i][2]]
    IN  IF words = <<>> THEN NoneStr ELSE Strip(Join(words))

\* index of the first token that matches one of the three sets, 0 if none
FirstMatch(tokens, A, B, C) ==
    LET hits == {i \in DOMAIN tokens :
                    \/ _find_synonym_match(tokens[i], A)
                    \/ _find_synonym_match(tokens[i], B)
                    \/ _find_synonym_match(tokens[i], C)}
    IN  IF hits = {} THEN 0 ELSE CHOOSE i \in hits : \A j \in hits : i <= j

\* variant of Classify: one pass, in which the first token that matches any
\* of the six sets decides
Classify_OnePass(tokens) ==
    LET hits == {i \in DOMAIN tokens :
                    \/ FirstMatch(<<tokens[i]>>, RECIPE_SYNONYMS, SHOPPING_SYNONYMS, INVENTORY_SYNONYMS) # 0
                    \/ FirstMatch(<<tokens[i]>>, ADD_SYNONYMS, REMOVE_SYNONYMS, UPDATE_SYNONYMS) # 0}
        i    == IF hits = {} THEN 0 ELSE CHOOSE k \in hits : \A j \in hits : k <= j
    IN  IF i = 0 THEN <<"None", 0>>
        ELSE <<IF _find_synonym_match(tokens[i], RECIPE_SYNONYMS) THEN "recipe"
               ELSE IF _find_synonym_match(tokens[i], SHOPPING_SYNONYMS) THEN "shopping"
               ELSE IF _find_synonym_match(tokens[i], INVENTORY_SYNONYMS) THEN "inventory"
               ELSE IF _find_synonym_match(tokens[i], ADD_SYNONYMS) THEN "add"
               ELSE IF _find_synonym_match(tokens[i], REMOVE_SYNONYMS) THEN "remove"
               ELSE "update", i>>

\* the two passes of voice_router_node: <<action_type, action_idx>> (1-based)
Classify(tokens) ==
    LET i1 == FirstMatch(tokens, RECIPE_SYNONYMS, SHOPPING_SYNONYMS, INVENTORY_SYNONYMS)
        i2 == FirstMatch(tokens, ADD_SYNONYMS, REMOVE_SYNONYMS, UPDATE_SYNONYMS)
    IN  IF i1 # 0 THEN
            <<IF _find_synonym_match(tokens[i1], RECIPE_SYNONYMS) THEN "recipe"
              ELSE IF _find_synonym_match(tokens[i1], SHOPPING_SYNONYMS) THEN "shopping"
              ELSE "inventory", i1>>
        ELSE IF i2 # 0 THEN
            <<IF _find_synonym_match(tokens[i2], ADD_SYNONYMS) THEN "add"
              ELSE IF _find_synonym_match(tokens[i2], REMOVE_SYNONYMS) THEN "remove"
              ELSE "update", i2>>
        ELSE <<"None", 0>>

\* ------------------------------------------------------------------------
\* DatabaseHelper over the inventory table (app/database_helper.py)
\* Every operation returns [inv, exc, ...]: the table after the call and the
\* exception it raises ("none" when it returns normally).

Row(name, quantity, unit, user_id) ==
    [name |-> name, quantity |-> quantity, unit |-> unit, user_id |-> user_id]

Min(S) == CHOOSE x \in S : \A y \in S : x <= y

\* Query.filter(user_id == u, name.ilike(pattern)).first(): index of the row,
\* 0 for None
FirstLike(inv, u, pattern) ==
    LET hits == {i \in DOMAIN inv : inv[i].user_id = u /\ ILike(inv[i].name, pattern)}
    IN  IF hits = {} THEN 0 ELSE Min(hits)

\* Query.filter(user_id == u, name.ilike('%pattern%')).first()
FirstContaining(inv, u, pattern) ==
    LET hits == {i \in DOMAIN inv :
                    inv[i].user_id = u /\ ILikeContains(inv[i].name, pattern)}
    IN  IF hits = {} THEN 0 ELSE Min(hits)

RemoveAt(inv, i) == SubSeq(inv, 1, i - 1) \o SubSeq(inv, i + 1, Len(inv))

\* the dict built from a row by get_item and find_item_fuzzy
ItemDict(row) ==
    [kind |-> "item", name |-> row.name, quantity |-> row.quantity, unit |-> row.unit]

NoneDict == [kind |-> "None"]

db_get_item(inv, u, name) ==
    IF ~Truthy(name) THEN NoneDict
    ELSE LET i == FirstLike(inv, u, name)
         IN  IF i = 0 THEN NoneDict ELSE ItemDict(inv[i])

db_find_item_fuzzy(inv, u, name) ==
    IF ~Truthy(name) THEN NoneDict
    ELSE LET name_normalized == Strip(Lower(name))
             exact   == FirstLike(inv, u, name_normalized)
             partial == FirstContaining(inv, u, name_normalized)
         IN  IF exact # 0 THEN ItemDict(inv[exact])
             ELSE IF partial # 0 THEN ItemDict(inv[partial])
             ELSE NoneDict

db_add_item(inv, u, name, quantity, unit) ==
    IF ~Truthy(name) THEN [inv |-> inv, exc |-> "ValueError", msg |-> "Item name cannot be empty"]
    ELSE LET name_normalized == Strip(Lower(name))
             existing == FirstLike(inv, u, name_normalized)
         IN  IF existing # 0
             THEN [inv |-> [inv EXCEPT ![existing].quantity = @ + quantity],
                   exc |-> "none", msg |-> "None"]
             ELSE IF \E i \in DOMAIN inv : inv[i].user_id = u /\ inv[i].name = name
                  \* UniqueConstraint('name', 'user_id') -> IntegrityError -> ValueError
                  THEN [inv |-> inv, exc |-> "ValueError", msg |-> "already exists for this user"]
                  ELSE [inv |-> Append(inv, Row(name, quantity, unit, u)),
                        exc |-> "none", msg |-> "None"]

db_update_item(inv, u, name, quantity, unit) ==
    IF ~Truthy(name) THEN [inv |-> inv, exc |-> "ValueError", msg |-> "Item name cannot be empty"]
    ELSE LET i == FirstLike(inv, u, name)
         IN  IF i = 0
             THEN [inv |-> inv, exc |-> "ValueError", msg |-> "not found for this user"]
             ELSE [inv |-> [inv EXCEPT ![i].quantity = quantity, ![i].unit = unit],
                   exc |-> "none", msg |-> "None"]

\* variant of db_reduce_quantity: writes the remainder even when it is zero
db_reduce_quantity_KeepsZero(inv, u, name, amount) ==
    IF ~Truthy(name) THEN [inv |-> inv, exc |-> "ValueError", msg |-> "Item name cannot be empty"]
    ELSE LET i == FirstLike(inv, u, name)
         IN  IF i = 0 THEN [inv |-> inv, exc |-> "none", msg |-> "None"]
             ELSE [inv |-> [inv EXCEPT ![i].quantity =
                                IF @ - amount > 0 THEN @ - amount ELSE 0],
                   exc |-> "none", msg |-> "None"]

db_reduce_quantity(inv, u, name, amount) ==
    IF ~Truthy(name) THEN [inv |-> inv, exc |-> "ValueError", msg |-> "Item name cannot be empty"]
    ELSE LET i == FirstLike(inv, u, name)
             new_quantity == IF inv[i].quantity - amount < 0 THEN 0 ELSE inv[i].quantity - amount
         IN  IF i = 0 THEN [inv |-> inv, exc |-> "none", msg |-> "None"]
             ELSE IF new_quantity = 0
                  THEN [inv |-> RemoveAt(inv, i), exc |-> "none", msg |-> "None"]
                  ELSE [inv |-> [inv EXCEPT ![i].quantity = new_quantity],
                        exc |-> "none", msg |-> "None"]

db_delete_item(inv, u, name) ==
    IF ~Truthy(name) THEN [inv |-> inv, exc |-> "ValueError", msg |-> "Item name cannot be empty"]
    ELSE LET i == FirstLike(inv, u, name)
         IN  IF i = 0
             THEN [inv |-> inv, exc |-> "ValueError", msg |-> "not found for this user"]
             ELSE [inv |-> RemoveAt(inv, i), exc |-> "none", msg |-> "None"]

\* ORDER BY name ASC; the dicts of the user's rows
db_get_all_inventory(inv, u) ==
    LET mine == SelectSeq(inv, LAMBDA r : r.user_id = u)
        sorted == SortSeq(mine, LAMBDA a, b : StrLess(a.name, b.name))
    IN  [i \in DOMAIN sorted |-> ItemDict(sorted[i])]

\* ------------------------------------------------------------------------
\* InventoryAgent (app/agents/inventory_agent.py)
\* Every method returns [inv, exc, msg, result].

ErrorDict == [kind |-> "error", error |-> "Item name cannot be empty"]

RemovedDict(name, unit) ==
    [kind |-> "removed", name |-> name, quantity |-> 0, unit |-> unit]

Raise(inv, exc, msg) == [inv |-> inv, exc |-> exc, msg |-> msg, result |-> NoneDict]

Return(inv, result) == [inv |-> inv, exc |-> "none", msg |-> "None", result |-> result]

AttributeErrorMsg == "'NoneType' object has no attribute 'lower'"

\* the quantity add_item writes for an item that exists
add_item_new_quantity(existing, quantity, unit) ==
    LET base_unit     == get_base_unit_for_item(existing.unit)
        new_base_unit == get_base_unit_for_item(unit)
        converted_qty == convert_to_unit(quantity, unit, existing.unit)
    IN  IF base_unit = new_base_unit
           \/ (base_unit \in {s_liter, s_gram} /\ new_base_unit \in {s_liter, s_gram})
        THEN IF converted_qty # NoneNum
             THEN existing.quantity + converted_qty
             ELSE existing.quantity + quantity
        ELSE existing.quantity + quantity

\* "return self.db_helper.get_item(name)" after the write w
ReturnItem(w, u, name) ==
    IF w.exc # "none" THEN Raise(w.inv, w.exc, w.msg)
    ELSE Return(w.inv, db_get_item(w.inv, u, name))

\* "return {... 'removed': True}" after the delete w
ReturnRemoved(w, existing) ==
    IF w.exc # "none" THEN Raise(w.inv, w.exc, w.msg)
    ELSE Return(w.inv, RemovedDict(existing.name, existing.unit))

\* add_item, the branch "if existing"
add_item_existing(inv, u, existing, quantity, unit) ==
    IF normalize_unit_raises(unit)
    THEN Raise(inv, "AttributeError", AttributeErrorMsg)
    ELSE ReturnItem(db_update_item(inv, u, existing.name,
                                   add_item_new_quantity(existing, quantity, unit),
                                   existing.unit),
                    u, existing.name)

\* the (quantity, unit) add_item stores for a new item: the base unit of the
\* category when the unit is not already that
add_item_storage(quantity, unit, base_unit, converted_qty) ==
    IF base_unit # unit /\ converted_qty # NoneNum
    THEN <<converted_qty, base_unit>>
    ELSE <<quantity, unit>>

\* add_item, the branch "else" (no existing item)
add_item_new(inv, u, item_name_normalized, stored) ==
    ReturnItem(db_add_item(inv, u, item_name_normalized, stored[1], stored[2]),
               u, item_name_normalized)

add_item_found(inv, u, item_name_normalized, existing, quantity, unit) ==
    IF existing.kind = "item"
    THEN add_item_existing(inv, u, existing, quantity, unit)
    ELSE IF normalize_unit_raises(unit)
    THEN Raise(inv, "AttributeError", AttributeErrorMsg)
    ELSE add_item_new(inv, u, item_name_normalized,
                      add_item_storage(quantity, unit, get_base_unit_for_item(unit),
                          convert_to_unit(quantity, unit, get_base_unit_for_item(unit))))

add_item(inv, u, item_name, quantity, unit) ==
    IF ~Truthy(item_name) THEN Return(inv, ErrorDict)
    ELSE add_item_found(inv, u, Strip(Lower(item_name)),
                        db_find_item_fuzzy(inv, u, Strip(Lower(item_name))),
                        quantity, unit)

\* the quantity remove_item_with_unit compares with and subtracts from the
\* stored quantity
removal_quantity(existing, quantity, unit) ==
    IF Truthy(unit) /\ Truthy(existing.unit) /\ Lower(unit) # Lower(existing.unit)
    THEN LET converted_qty == convert_to_unit(quantity, unit, existing.unit)
         IN  IF converted_qty # NoneNum THEN converted_qty ELSE quantity
    ELSE quantity

\* variant of remove_quantity: clamps at zero instead of refusing
remove_quantity_Clamped(inv, u, existing, rq) ==
    IF existing.quantity - rq <= 0
    THEN ReturnRemoved(db_delete_item(inv, u, existing.name), existing)
    ELSE ReturnItem(db_update_item(inv, u, existing.name,
                                   existing.quantity - rq, existing.unit),
                    u, existing.name)

\* variant of remove_quantity: writes the remainder even when it is zero
remove_quantity_KeepsZero(inv, u, existing, rq) ==
    IF existing.quantity < rq
    THEN Raise(inv, "ValueError", "exists but you only have less left")
    ELSE ReturnItem(db_update_item(inv, u, existing.name,
                                   existing.quantity - rq, existing.unit),
                    u, existing.name)

\* remove_item_with_unit once the item is found and a quantity is given;
\* rq is removal_quantity
remove_quantity(inv, u, existing, rq) ==
    IF existing.quantity < rq
    THEN Raise(inv, "ValueError", "exists but you only have less left")
    ELSE IF existing.quantity - rq = 0
    THEN ReturnRemoved(db_delete_item(inv, u, existing.name), existing)
    ELSE ReturnItem(db_update_item(inv, u, existing.name,
                                   existing.quantity - rq, existing.unit),
                    u, existing.name)

remove_item_found(inv, u, existing, quantity, unit) ==
    IF existing.kind # "item"
    THEN Raise(inv, "ValueError", "not found in inventory")
    ELSE IF quantity = NoneNum
    THEN ReturnRemoved(db_delete_item(inv, u, existing.name), existing)
    ELSE remove_quantity(inv, u, existing, removal_quantity(existing, quantity, unit))

remove_item_with_unit(inv, u, item_name, quantity, unit) ==
    IF ~Truthy(item_name) THEN Return(inv, ErrorDict)
    ELSE remove_item_found(inv, u, db_find_item_fuzzy(inv, u, Strip(Lower(item_name))),
                           quantity, unit)

\* variant of update_quantity: an item that exists has the quantity added to it
update_quantity_Accumulates(inv, u, item_name, quantity, unit) ==
    ReturnItem(db_add_item(inv, u, item_name, quantity, unit), u, item_name)

update_quantity(inv, u, item_name, quantity, unit) ==
    IF db_get_item(inv, u, item_name).kind # "item"
    THEN ReturnItem(db_add_item(inv, u, item_name, quantity, unit), u, item_name)
    ELSE ReturnItem(db_update_item(inv, u, item_name, quantity, unit), u, item_name)

\* ------------------------------------------------------------------------
\* ShoppingAgent (app/agents/shopping_agent.py)

DEFAULT_THRESHOLD == 1000

\* thresholds is empty in every state the handlers build, so each item gets
\* DEFAULT_THRESHOLD; suggested_quantity = max(threshold * 2, 3.0)
generate_shopping_list(inv, u) ==
    LET inventory == db_get_all_inventory(inv, u)
        threshold == DEFAULT_THRESHOLD
        low       == SelectSeq(inventory, LAMBDA item : item.quantity <= threshold)
        entries   == [i \in DOMAIN low |->
                        [name |-> low[i].name,
                         current_quantity |-> low[i].quantity,
                         unit |-> low[i].unit,
                         threshold |-> threshold,
                         suggested_quantity |->
                             IF threshold * 2 > 3 * Milli THEN threshold * 2 ELSE 3 * Milli,
                         priority |-> IF low[i].quantity = 0 THEN "high" ELSE "medium"]]
    IN  SortSeq(entries,
                LAMBDA a, b : \/ (a.priority # "medium" /\ b.priority = "medium")
                              \/ (a.priority = b.priority /\ StrLess(a.name, b.name)))

\* ------------------------------------------------------------------------
\* Workflow state and nodes (app/graph)

\* the initial_state dict the handlers of main.py hand to graph_app.invoke
InitialState(command, command_type, item_name, quantity, unit) ==
    [command         |-> command,
     command_type    |-> command_type,
     item_name       |-> item_name,
     quantity        |-> quantity,
     unit            |-> unit,
     inventory       |-> <<>>,
     recipe          |-> NoneDict,
     shopping_list   |-> <<>>,
     response_text   |-> "",
     response_action |-> "None",
     response_data   |-> NoneDict,
     error           |-> "None",
     success         |-> FALSE]

voice_router_node(state) ==
    LET command     == Lower(state.command)
        tokens      == _tokenize(command)
        cls         == Classify(tokens)
        action_type == cls[1]
        action_idx  == cls[2]
        slots       == _extract_quantity_and_unit(tokens, action_idx + 1)
        item_name   == _extract_item_name(tokens,
                           {action_idx} \cup ((action_idx + 1)..(action_idx + slots[3])))
        isInv       == action_type \in {"add", "remove", "update"}
    IN  [state EXCEPT
            !.command_type = action_type,
            !.item_name    = IF isInv THEN item_name ELSE NoneStr,
            !.quantity     = IF isInv THEN slots[1] ELSE NoneNum,
            !.unit         = IF isInv THEN slots[2] ELSE NoneStr,
            !.error        = IF action_type = "None"
                             THEN "I didn't understand that command." ELSE "None",
            !.success      = action_type # "None"]

\* variant of route_command: routes on command_type alone, listing by default
route_command_ByTypeOnly(state) ==
    IF state.command_type \in {"add", "remove", "update"} THEN "inventory"
    ELSE IF state.command_type = "recipe" THEN "planner"
    ELSE IF state.command_type = "shopping" THEN "shopping"
    ELSE "inventory_list"

route_command(state) ==
    IF state.error # "None" THEN "error"
    ELSE IF state.command_type \in {"add", "remove", "update"} THEN "inventory"
    ELSE IF state.command_type = "recipe" THEN "planner"
    ELSE IF state.command_type = "shopping" THEN "shopping"
    ELSE IF state.command_type = "inventory" THEN "inventory_list"
    ELSE "error"

\* the except clauses of inventory_node
inventory_node_except(state, exc, msg) ==
    IF exc = "ValueError"
    THEN [state EXCEPT !.error = msg, !.success = FALSE, !.response_text = msg]
    ELSE [state EXCEPT !.error = msg, !.success = FALSE,
                       !.response_text = "Sorry, I couldn't process that"]

\* the tail of the try block of inventory_node
inventory_node_ok(state, inv, u, text, result) ==
    [state EXCEPT !.response_text   = text,
                  !.response_action = "inventory_updated",
                  !.response_data   = result,
                  !.inventory       = db_get_all_inventory(inv, u),
                  !.success         = TRUE]

\* inventory_node after the agent call r of the branch 'add'
inventory_node_added(state, u, r) ==
    IF r.exc # "none"
    THEN [state |-> inventory_node_except(state, r.exc, r.msg), inv |-> r.inv]
    ELSE [state |-> inventory_node_ok(state, r.inv, u, "Added", r.result), inv |-> r.inv]

\* inventory_node after the agent call r of the branch 'remove'; the text of
\* the else branch reads result['quantity'], a KeyError on the error dict
inventory_node_removed(state, u, r) ==
    IF r.exc # "none"
    THEN [state |-> inventory_node_except(state, r.exc, r.msg), inv |-> r.inv]
    ELSE IF r.result.kind = "removed"
    THEN [state |-> inventory_node_ok(state, r.inv, u, "Removed item", r.result),
          inv |-> r.inv]
    ELSE IF r.result.kind = "item"
    THEN [state |-> inventory_node_ok(state, r.inv, u, "Removed quantity", r.result),
          inv |-> r.inv]
    ELSE [state |-> inventory_node_except(state, "KeyError", "'quantity'"), inv |-> r.inv]

\* inventory_node after the agent call r of the branch 'update'; the text
\* reads result['quantity'], a TypeError when get_item returned None
inventory_node_updated(state, u, r) ==
    IF r.exc # "none"
    THEN [state |-> inventory_node_except(state, r.exc, r.msg), inv |-> r.inv]
    ELSE IF r.result.kind # "item"
    THEN [state |-> inventory_node_except(state, "TypeError",
                                          "'NoneType' object is not subscriptable"),
          inv |-> r.inv]
    ELSE [state |-> inventory_node_ok(state, r.inv, u, "Updated", r.result), inv |-> r.inv]

\* inventory_node, the branch 'update'
inventory_node_update(state, inv, u) ==
    IF state.quantity = NoneNum
    THEN [state |-> [state EXCEPT !.error = "Quantity is required for update operation",
                                  !.success = FALSE],
          inv |-> inv]
    ELSE IF normalize_unit_raises(state.unit)
    THEN [state |-> inventory_node_except(state, "AttributeError", AttributeErrorMsg),
          inv |-> inv]
    ELSE inventory_node_updated(state, u,
            update_quantity(inv, u, state.item_name,
                            standardize_quantity(state.quantity, state.unit)[1],
                            standardize_quantity(state.quantity, state.unit)[2]))

\* returns [state, inv]
inventory_node(state, inv, u) ==
    CASE state.command_type = "add" ->
            inventory_node_added(state, u,
                add_item(inv, u, state.item_name,
                         IF state.quantity = NoneNum \/ state.quantity = 0
                         THEN Milli ELSE state.quantity,
                         state.unit))
      [] state.command_type = "remove" ->
            inventory_node_removed(state, u,
                remove_item_with_unit(inv, u, state.item_name, state.quantity, state.unit))
      [] state.command_type = "update" ->
            inventory_node_update(state, inv, u)
      [] OTHER ->
            [state |-> [state EXCEPT !.inventory = db_get_all_inventory(inv, u),
                                     !.success = TRUE],
             inv |-> inv]

\* recipe is what PlannerAgent.suggest_recipe returns: [kind, name, wellformed];
\* wellformed is FALSE when an ingredient dict of the backend lacks a key that
\* planner_node reads
planner_node(state, inv, u, recipe) ==
    IF db_get_all_inventory(inv, u) = <<>>
    THEN [state EXCEPT
            !.recipe = [kind |-> "recipe", name |-> "No ingredients available",
                        wellformed |-> TRUE],
            !.response_text = "Your inventory is empty. Please add some ingredients first.",
            !.response_action = "recipe_suggested",
            !.success = TRUE]
    ELSE IF ~recipe.wellformed
    THEN [state EXCEPT
            !.recipe = recipe,
            !.error = "'quantity'",
            !.success = FALSE,
            !.response_text = "Sorry, I couldn't suggest a recipe"]
    ELSE [state EXCEPT
            !.recipe = recipe,
            !.response_text = "I suggest making",
            !.response_action = "recipe_suggested",
            !.response_data = recipe,
            !.success = TRUE]

shopping_node(state, inv, u) ==
    LET shopping_list == generate_shopping_list(inv, u)
    IN  [state EXCEPT
            !.shopping_list = shopping_list,
            !.response_text = IF shopping_list = <<>>
                              THEN "Great! You have all the items you need."
                              ELSE "Here's your shopping list",
            !.response_action = "shopping_list",
            !.response_data = [kind |-> "list", items |-> shopping_list],
            !.success = TRUE]

inventory_list_node(state, inv, u) ==
    LET inventory == db_get_all_inventory(inv, u)
    IN  [state EXCEPT
            !.inventory = inventory,
            !.response_text = IF inventory = <<>>
                              THEN "Your inventory is empty."
                              ELSE "You have",
            !.response_action = "inventory_list",
            !.response_data = [kind |-> "list", items |-> inventory],
            !.success = TRUE]

error_node(state) ==
    [state EXCEPT
        !.response_text = IF state.response_text = ""
                          THEN "I encountered an error" ELSE @,
        !.success = FALSE]

\* variant of NextNode: every handler node has an edge to the error node
NextNode_HandlersToError(n, state) ==
    IF n = "voice_router" THEN route_command(state)
    ELSE IF n = "error" THEN "END"
    ELSE "error"

\* the node the graph enters after node n (workflow.add_edge(n, END))
NextNode(n, state) ==
    IF n = "voice_router" THEN route_command(state) ELSE "END"

\* ------------------------------------------------------------------------
\* Shopping-list table (app/database_helper.py) and confirm_meal_plan
\* (app/main.py)

ShopRow(name, quantity, user_id) ==
    [name |-> name, quantity |-> quantity, checked |-> 0, user_id |-> user_id]

\* returns [shop, exc]
db_add_shopping_list_item(shop, u, name, quantity) ==
    IF ~Truthy(name) THEN [shop |-> shop, exc |-> "ValueError"]
    ELSE LET hits == {i \in DOMAIN shop : /\ shop[i].user_id = u
                                          /\ ILike(shop[i].name, name)
                                          /\ shop[i].checked = 0}
         IN  IF hits # {}
             THEN [shop |-> [shop EXCEPT ![Min(hits)].quantity = quantity], exc |-> "none"]
             ELSE [shop |-> Append(shop, ShopRow(name, quantity, u)), exc |-> "none"]

\* item_id is the position of the row; returns [shop, exc]
db_toggle_shopping_list_item(shop, u, item_id) ==
    IF item_id \notin DOMAIN shop \/ shop[item_id].user_id # u
    THEN [shop |-> shop, exc |-> "ValueError"]
    ELSE [shop |-> [shop EXCEPT ![item_id].checked = IF @ = 0 THEN 1 ELSE 0],
          exc |-> "none"]

db_delete_shopping_list_item(shop, u, item_id) ==
    IF item_id \notin DOMAIN shop \/ shop[item_id].user_id # u
    THEN [shop |-> shop, exc |-> "ValueError"]
    ELSE [shop |-> RemoveAt(shop, item_id), exc |-> "none"]

\* str.replace(pat, '')
RECURSIVE RemoveAll(_, _)
RemoveAll(s, pat) ==
    IF Len(s) < Len(pat) THEN s
    ELSE IF SubSeq(s, 1, Len(pat)) = pat
         THEN RemoveAll(SubSeq(s, Len(pat) + 1, Len(s)), pat)
         ELSE <<Head(s)>> \o RemoveAll(Tail(s), pat)

\* .replace('fresh', '').replace('dried', '').replace('chopped', '')
\* .replace('sliced', '').strip()
CleanName(s) ==
    Strip(RemoveAll(RemoveAll(RemoveAll(RemoveAll(s, <<"f","r","e","s","h">>), <<"d","r","i","e","d">>),
                              <<"c","h","o","p","p","e","d">>), <<"s","l","i","c","e","d">>))

unit_aliases ==
    {{<<"u","n","i","t","s">>, <<"u","n","i","t">>, <<"p","i","e","c","e">>, <<"p","i","e","c","e","s">>, <<"p","c","s">>},
     {<<"c","u","p","s">>, <<"c","u","p">>, <<"c">>},
     {<<"t","a","b","l","e","s","p","o","o","n">>, <<"t","a","b","l","e","s","p","o","o","n","s">>, <<"t","b","s","p">>, <<"t","b","s">>},
     {<<"t","e","a","s","p","o","o","n">>, <<"t","e","a","s","p","o","o","n","s">>, <<"t","s","p">>},
     {<<"p","o","u","n","d">>, <<"p","o","u","n","d","s">>, <<"l","b">>, <<"l","b","s">>},
     {<<"k","i","l","o","g","r","a","m">>, <<"k","i","l","o","g","r","a","m","s">>, <<"k","g">>},
     {<<"g","r","a","m">>, <<"g","r","a","m","s">>, <<"g">>},
     {<<"o","u","n","c","e">>, <<"o","u","n","c","e","s">>, <<"o","z">>},
     {<<"m","i","l","l","i","l","i","t","e","r">>, <<"m","i","l","l","i","l","i","t","e","r","s">>, <<"m","l">>},
     {<<"l","i","t","e","r">>, <<"l","i","t","e","r","s">>, <<"l">>, <<"l","i","t","r","e">>, <<"l","i","t","r","e","s">>}}

numeric_units ==
    {<<"u","n","i","t","s">>, <<"u","n","i","t">>, <<"p","i","e","c","e">>, <<"p","i","e","c","e","s">>, <<"p","c","s">>, <<"i","t","e","m">>, <<"i","t","e","m","s">>}

units_match(inv_unit, ing_unit) ==
    \/ inv_unit = ing_unit
    \/ \E aliases \in unit_aliases : inv_unit \in aliases /\ ing_unit \in aliases
    \/ (inv_unit \in numeric_units /\ ing_unit \in numeric_units)

\* the text f"{quantity} {unit}", or str(quantity) for the unit 'units', kept
\* as the pair it is built from (unit <<>>: no suffix; a unit of None is
\* formatted as the word None)
quantity_str(quantity, unit) ==
    [num |-> quantity, unit |-> IF unit = s_units THEN <<>> ELSE unit]

\* inventory_dict: the (key, item) pairs in insertion order
DictSet(d, key, item) ==
    IF \E i \in DOMAIN d : d[i].key = key
    THEN [i \in DOMAIN d |-> IF d[i].key = key THEN [key |-> key, item |-> item] ELSE d[i]]
    ELSE Append(d, [key |-> key, item |-> item])

DictDel(d, key) == SelectSeq(d, LAMBDA e : e.key # key)

RECURSIVE DictFromList(_, _)
DictFromList(items, d) ==
    IF items = <<>> THEN d
    ELSE DictFromList(Tail(items), DictSet(d, Lower(Head(items).name), Head(items)))

\* the match cascade that follows a miss of find_item_fuzzy
CascadeMatch(d, ingredient_name) ==
    LET ingredient_name_lower == Strip(Lower(ingredient_name))
        ingredient_clean      == CleanName(ingredient_name_lower)
        matches(e) ==
            LET inv_name       == e.key
                inv_name_clean == CleanName(inv_name)
            IN  \/ inv_name = ingredient_name_lower
                \/ inv_name_clean = ingredient_clean
                \/ IsSubstr(ingredient_name_lower, inv_name)
                \/ IsSubstr(inv_name, ingredient_name_lower)
                \/ IsSubstr(ingredient_clean, inv_name_clean)
                \/ IsSubstr(inv_name_clean, ingredient_clean)
        hits == {i \in DOMAIN d : matches(d[i])}
    IN  IF hits = {} THEN NoneDict ELSE d[Min(hits)].item

\* variant of ConfirmToShoppingList: the ingredient is dropped
ConfirmToShoppingList_Dropped(acc, u, ingredient_name, qstr) == acc

\* the fallback of the except clause and of the no-match branch: the write to
\* the shopping list is itself guarded by try/except
ConfirmToShoppingList(acc, u, ingredient_name, qstr) ==
    LET w == db_add_shopping_list_item(acc.shop, u, ingredient_name, qstr)
    IN  IF w.exc # "none" THEN acc
        ELSE [acc EXCEPT !.shop = w.shop,
                         !.added = Append(@, [name |-> ingredient_name, quantity |-> qstr])]

\* one iteration of the loop over request.ingredients
ConfirmIngredient(acc, u, ingredient) ==
    LET ingredient_name == Strip(ingredient.name)
        fuzzy           == db_find_item_fuzzy(acc.inv, u, ingredient_name)
        inventory_item  == IF fuzzy.kind = "item" THEN fuzzy
                           ELSE CascadeMatch(acc.dict, ingredient_name)
        qty_needed      == ingredient.quantity
        full            == quantity_str(ingredient.quantity, ingredient.unit)
        inv_unit        == Strip(Lower(inventory_item.unit))
        ing_unit        == Strip(Lower(ingredient.unit))
        old_quantity    == inventory_item.quantity
        key             == Lower(inventory_item.name)
        enough          == db_reduce_quantity(acc.inv, u, inventory_item.name, qty_needed)
        updated_item    == db_get_item(enough.inv, u, inventory_item.name)
        all             == db_reduce_quantity(acc.inv, u, inventory_item.name, old_quantity)
        gone            == [name |-> inventory_item.name, old_quantity |-> old_quantity,
                            unit |-> inventory_item.unit]
    IN  \* ingredient.get('name', '').strip() raises on None, outside every
        \* try of the loop body: the handler's outer except answers 500
        IF ingredient.name = NoneStr THEN [acc EXCEPT !.exc = "AttributeError"]
        ELSE IF ingredient_name = <<>> THEN acc
        ELSE IF inventory_item.kind # "item"
        THEN ConfirmToShoppingList(acc, u, ingredient_name, full)
        \* ingredient_unit.lower() raises on None: the except clause
        ELSE IF ingredient.unit = NoneStr
        THEN ConfirmToShoppingList(acc, u, ingredient_name, full)
        ELSE IF units_match(inv_unit, ing_unit) /\ old_quantity >= qty_needed
        THEN IF enough.exc # "none"
             THEN ConfirmToShoppingList(acc, u, ingredient_name, full)
             ELSE IF updated_item.kind # "item"
             THEN [acc EXCEPT !.inv = enough.inv,
                              !.dict = DictDel(@, key),
                              !.deleted = Append(@, gone)]
             ELSE [acc EXCEPT !.inv = enough.inv,
                              !.dict = DictSet(@, key, updated_item),
                              !.reduced = Append(@, [name |-> inventory_item.name,
                                                     old_quantity |-> old_quantity,
                                                     new_quantity |-> updated_item.quantity,
                                                     unit |-> inventory_item.unit])]
        ELSE IF units_match(inv_unit, ing_unit)
        THEN IF all.exc # "none"
             THEN ConfirmToShoppingList(acc, u, ingredient_name, full)
             ELSE LET qstr == quantity_str(qty_needed - old_quantity, ingredient.unit)
                      w    == db_add_shopping_list_item(acc.shop, u, ingredient_name, qstr)
                      acc1 == [acc EXCEPT !.inv = all.inv,
                                          !.dict = DictDel(@, key),
                                          !.deleted = Append(@, gone)]
                  IN  IF w.exc # "none"
                      THEN ConfirmToShoppingList(acc1, u, ingredient_name, full)
                      ELSE [acc1 EXCEPT !.shop = w.shop,
                                        !.added = Append(@, [name |-> ingredient_name,
                                                             quantity |-> qstr])]
        ELSE ConfirmToShoppingList(acc, u, ingredient_name, full)

RECURSIVE ConfirmLoop(_, _, _)
ConfirmLoop(acc, u, ingredients) ==
    IF ingredients = <<>> \/ acc.exc # "none" THEN acc
    ELSE ConfirmLoop(ConfirmIngredient(acc, u, Head(ingredients)), u, Tail(ingredients))

\* returns [inv, shop, exc, dict, added, reduced, deleted]; each DatabaseHelper
\* call commits on its own, so inv and shop hold what was written before exc
confirm_meal_plan(inv, shop, u, ingredients) ==
    ConfirmLoop([inv |-> inv, shop |-> shop, exc |-> "none",
                 dict |-> DictFromList(db_get_all_inventory(inv, u), <<>>),
                 added |-> <<>>, reduced |-> <<>>, deleted |-> <<>>],
                u, ingredients)

\* ------------------------------------------------------------------------
\* Inputs of the model

Users == {1, 2}

\* command texts handed to the workflow
Commands ==
    {<<"a","d","d"," ","1"," ","k","g"," ","f","l","o","u","r">>, <<"a","d","d"," ","5","0","0"," ","g","r","a","m","s"," ","f","l","o","u","r">>, <<"a","d","d"," ","5","0","0"," ","m","l"," ","f","l","o","u","r">>,
     <<"a","d","d"," ","f","l","o","u","r">>, <<"a","d","d">>,
     <<"r","e","m","o","v","e"," ","1"," ","k","g"," ","f","l","o","u","r">>, <<"r","e","m","o","v","e"," ","2"," ","k","g"," ","f","l","o","u","r">>, <<"r","e","m","o","v","e"," ","f","l","o","u","r">>, <<"r","e","m","o","v","e">>,
     <<"u","p","d","a","t","e"," ","0"," ","k","g"," ","f","l","o","u","r">>, <<"u","p","d","a","t","e"," ","2"," ","k","g"," ","f","l","o","u","r">>,
     <<"u","p","d","a","t","e"," ","f","l","o","u","r">>, <<"u","p","d","a","t","e"," ","2"," ","k","g">>,
     <<"h","e","l","l","o">>, <<"s","u","g","g","e","s","t"," ","a"," ","r","e","c","i","p","e">>, <<"b","u","y"," ","g","r","o","c","e","r","i","e","s">>, <<"s","h","o","w"," ","i","n","v","e","n","t","o","r","y">>}

\* bodies of POST /api/inventory/add
AddBodies ==
    {[item_name |-> <<" ","R","i","c","e">>, quantity |-> 1 * Milli, unit |-> s_units],
     [item_name |-> <<"r","i","c","e">>,  quantity |-> 1 * Milli, unit |-> s_units]}

\* bodies of POST /api/inventory/remove
RemoveBodies ==
    {[item_name |-> <<"r","i","c","e">>,  quantity |-> NoneNum],
     [item_name |-> <<"f","l","o","u","r">>, quantity |-> 500 * Milli]}

\* bodies of PUT /api/inventory/update
UpdateBodies ==
    {[item_name |-> <<"f","l","o","u","r">>, quantity |-> 0, unit |-> <<"k","g">>]}

\* bodies of POST /api/meal-plan/confirm
ConfirmBodies ==
    {<<[name |-> <<"f","l","o","u","r">>, quantity |-> 1000 * Milli, unit |-> <<"g">>]>>,
     <<[name |-> <<"f","r","e","s","h"," ","f","l","o","u","r">>, quantity |-> 1500 * Milli, unit |-> <<"g","r","a","m","s">>],
       [name |-> <<"r","i","c","e">>, quantity |-> 1 * Milli, unit |-> <<"k","g">>]>>}

\* what PlannerAgent.suggest_recipe can hand back to planner_node
SuggestOutcomes ==
    {[kind |-> "recipe", name |-> "Generated Recipe", wellformed |-> TRUE],
     [kind |-> "recipe", name |-> "Generated Recipe", wellformed |-> FALSE],
     [kind |-> "recipe", name |-> "Simple Meal with Available Ingredients",
      wellformed |-> TRUE]}

\* ------------------------------------------------------------------------
\* State

VARIABLES
    inventory,   \* the inventory table
    shopping,    \* the shopping_list table
    pc,          \* "idle", the node the running workflow is about to execute, or "END"
    state,       \* the ShoppingAssistantState of the running workflow
    req,         \* the HTTP request being served
    trace,       \* the nodes the running workflow has executed, in order
    nreq,        \* number of requests served so far
    procs,       \* the calls of two concurrent workers (ConcSpec)
    reply        \* the last reply of an endpoint (ConfirmSpec) or of a recipe request (SuggestSpec)

vars == <<inventory, shopping, pc, state, req, trace, nreq, procs, reply>>

BlankState == InitialState(<<>>, "None", NoneStr, NoneNum, NoneStr)

NoReq == [endpoint |-> "none", user |-> 0, item_name |-> NoneStr,
          quantity |-> NoneNum, unit |-> NoneStr]

Workers == {1, 2}

NoCall == [method |-> "none", item_name |-> NoneStr, quantity |-> NoneNum, unit |-> NoneStr]

IdleWorker == [at |-> "none", call |-> NoCall, existing |-> NoneDict,
               exc |-> "none", result |-> NoneDict]

NoProcs == [initial |-> 0, w |-> [p \in Workers |-> IdleWorker]]

\* no shopping-list or confirm endpoint has replied yet
NoReply == [endpoint |-> "none", user |-> 0, status |-> 0, body |-> <<>>,
            added |-> <<>>, reduced |-> <<>>, deleted |-> <<>>]

Init ==
    /\ inventory = <<>>
    /\ shopping = <<>>
    /\ pc = "idle"
    /\ state = BlankState
    /\ req = NoReq
    /\ trace = <<>>
    /\ nreq = 0
    /\ procs = NoProcs
    /\ reply = NoReply

\* the fallback of add_inventory after the workflow reported an error:
\* db_helper.add_item with the raw request fields
AddFallback(inv, r) ==
    db_add_item(inv, r.user, r.item_name, r.quantity, r.unit).inv

\* graph_app.invoke(initial_state)
Begin(r, s0) ==
    /\ pc = "idle"
    /\ nreq < MaxRequests
    /\ req' = r
    /\ state' = s0
    /\ pc' = "voice_router"
    /\ trace' = <<>>
    /\ nreq' = nreq + 1
    /\ UNCHANGED <<inventory, shopping, procs, reply>>

\* the workflow invoked on a command text
InvokeGraph(u, command) ==
    Begin([NoReq EXCEPT !.endpoint = "graph", !.user = u],
          InitialState(command, "None", NoneStr, NoneNum, NoneStr))

\* POST /api/inventory/add
add_inventory(u, item) ==
    Begin([endpoint |-> "add", user |-> u, item_name |-> item.item_name,
           quantity |-> item.quantity, unit |-> item.unit],
          InitialState(<<"a","d","d"," ">> \o item.item_name, "add",
                       item.item_name, item.quantity, item.unit))

\* POST /api/inventory/remove
remove_inventory(u, item) ==
    Begin([endpoint |-> "remove", user |-> u, item_name |-> item.item_name,
           quantity |-> item.quantity, unit |-> NoneStr],
          InitialState(<<"r","e","m","o","v","e"," ">> \o item.item_name, "remove",
                       item.item_name, item.quantity, NoneStr))

\* one node of the compiled graph runs, then the edge out of it is followed
RunNode(n, s, inv) ==
    /\ pc = n
    /\ state' = s
    /\ inventory' = inv
    /\ trace' = Append(trace, n)
    /\ pc' = NextNode(n, s)
    /\ UNCHANGED <<shopping, req, nreq, procs, reply>>

VoiceRouter == RunNode("voice_router", voice_router_node(state), inventory)

InventoryNode ==
    LET out == inventory_node(state, inventory, req.user)
    IN  RunNode("inventory", out.state, out.inv)

PlannerNode ==
    \E recipe \in SuggestOutcomes :
        RunNode("planner", planner_node(state, inventory, req.user, recipe), inventory)

ShoppingNode == RunNode("shopping", shopping_node(state, inventory, req.user), inventory)

InventoryListNode ==
    RunNode("inventory_list", inventory_list_node(state, inventory, req.user), inventory)

ErrorNode == RunNode("error", error_node(state), inventory)

\* graph_app.invoke has returned: the rest of the HTTP handler
Finish ==
    /\ pc = "END"
    /\ inventory' = IF req.endpoint = "add" /\ state.error # "None"
                    THEN AddFallback(inventory, req)
                    ELSE inventory
    /\ pc' = "idle"
    /\ state' = BlankState
    /\ req' = NoReq
    /\ trace' = <<>>
    /\ UNCHANGED <<shopping, nreq, procs, reply>>

\* PUT /api/inventory/update: db_helper.update_item on the raw fields
update_inventory(u, item) ==
    /\ pc = "idle"
    /\ nreq < MaxRequests
    /\ inventory' = db_update_item(inventory, u, item.item_name, item.quantity, item.unit).inv
    /\ nreq' = nreq + 1
    /\ UNCHANGED <<shopping, pc, state, req, trace, procs, reply>>

\* POST /api/meal-plan/confirm
ConfirmMealPlan(u, ingredients) ==
    LET out == confirm_meal_plan(inventory, shopping, u, ingredients)
    IN  /\ pc = "idle"
        /\ nreq < MaxRequests
        /\ inventory' = out.inv
        /\ shopping' = out.shop
        /\ nreq' = nreq + 1
        /\ UNCHANGED <<pc, state, req, trace, procs, reply>>

Next ==
    \/ \E u \in Users, command \in Commands : InvokeGraph(u, command)
    \/ \E u \in Users, item \in AddBodies : add_inventory(u, item)
    \/ \E u \in Users, item \in RemoveBodies : remove_inventory(u, item)
    \/ \E u \in Users, item \in UpdateBodies : update_inventory(u, item)
    \/ \E u \in Users, ingredients \in ConfirmBodies : ConfirmMealPlan(u, ingredients)
    \/ VoiceRouter
    \/ InventoryNode
    \/ PlannerNode
    \/ ShoppingNode
    \/ InventoryListNode
    \/ ErrorNode
    \/ Finish

Spec == Init /\ [][Next]_vars

PcValues == {"idle", "voice_router", "inventory", "planner", "shopping",
             "inventory_list", "error", "END"}

\* graph_app.invoke runs the node it is at and follows the edge out of it, and
\* the handler then returns: a run that has started moves on.  Every step of
\* Next taken with pc # "idle" is an Advance step, and the node actions and
\* Finish are guarded by pc alone, so WF_pc(Advance) is weak fairness of the
\* node actions and Finish taken together.
Advance == pc # "idle" /\ pc' \in (PcValues \ {pc})

FairSpec == Spec /\ WF_pc(Advance)

\* ------------------------------------------------------------------------
\* Two requests served concurrently (two server workers on one database).
\* InventoryAgent.add_item and remove_item_with_unit read the item with
\* find_item_fuzzy and later write an absolute quantity with update_item or
\* delete_item; each DatabaseHelper call commits on its own, and nothing
\* holds the row between the two calls.

\* the calls the two workers make, for the same owner and item
ConcCalls ==
    {[method |-> "add",    item_name |-> <<"f","l","o","u","r">>, quantity |-> 500 * Milli,  unit |-> <<"g","r","a","m">>],
     [method |-> "add",    item_name |-> <<"f","l","o","u","r">>, quantity |-> 1 * Milli,    unit |-> <<"k","g">>],
     [method |-> "remove", item_name |-> <<"f","l","o","u","r">>, quantity |-> 500 * Milli,  unit |-> <<"g","r","a","m">>],
     [method |-> "remove", item_name |-> <<"f","l","o","u","r">>, quantity |-> 1000 * Milli, unit |-> <<"g","r","a","m">>]}

\* the stores the two calls start from: what "add 1 kg flour" and a second
\* "add 1 kg flour" leave
ConcStores ==
    {<<Row(<<"f","l","o","u","r">>, 1000 * Milli, s_gram, 1)>>,
     <<Row(<<"f","l","o","u","r">>, 2000 * Milli, s_gram, 1)>>}

ConcInit ==
    /\ inventory \in ConcStores
    /\ shopping = <<>>
    /\ pc = "idle"
    /\ state = BlankState
    /\ req = NoReq
    /\ trace = <<>>
    /\ nreq = 0
    /\ reply = NoReply
    /\ \E c1 \in ConcCalls, c2 \in ConcCalls :
          procs = [initial |-> inventory[1].quantity,
                   w |-> [p \in Workers |->
                            [IdleWorker EXCEPT !.at = "read",
                                               !.call = IF p = 1 THEN c1 ELSE c2]]]

\* existing = self.db_helper.find_item_fuzzy(item_name_normalized)
ConcRead(p) ==
    /\ procs.w[p].at = "read"
    /\ procs' = [procs EXCEPT
                    !.w[p].existing = db_find_item_fuzzy(inventory, 1,
                                          Strip(Lower(procs.w[p].call.item_name))),
                    !.w[p].at = "write"]
    /\ UNCHANGED <<inventory, shopping, pc, state, req, trace, nreq, reply>>

\* the rest of the method, on the dict read earlier
ConcRest(inv, call, existing) ==
    IF call.method = "add"
    THEN add_item_found(inv, 1, Strip(Lower(call.item_name)), existing,
                        call.quantity, call.unit)
    ELSE remove_item_found(inv, 1, existing, call.quantity, call.unit)

ConcWrite(p) ==
    LET r == ConcRest(inventory, procs.w[p].call, procs.w[p].existing)
    IN  /\ procs.w[p].at = "write"
        /\ inventory' = r.inv
        /\ procs' = [procs EXCEPT !.w[p].exc = r.exc,
                                  !.w[p].result = r.result,
                                  !.w[p].at = "done"]
        /\ UNCHANGED <<shopping, pc, state, req, trace, nreq, reply>>

ConcNext == \E p \in Workers : ConcRead(p) \/ ConcWrite(p)

ConcSpec == ConcInit /\ [][ConcNext]_vars

\* ------------------------------------------------------------------------
\* The shopping-list endpoints and POST /api/meal-plan/confirm on a stocked
\* kitchen (app/main.py)

MaxCalls == 2

\* the stores the calls start from
ConfirmStores ==
    {<<Row(<<"t","o","m","a","t","o">>, 2 * Milli, s_units, 1), Row(<<"f","l","o","u","r">>, 1000 * Milli, s_gram, 1)>>,
     <<Row(<<"t","o","m","a","t","o">>, 5 * Milli, s_units, 1), Row(<<"t","o","m","a","t","o">>, 1 * Milli, s_units, 2)>>}

\* bodies of POST /api/meal-plan/confirm
ConfirmRequests ==
    {<<[name |-> <<"t","o","m","a","t","o">>, quantity |-> 3 * Milli, unit |-> s_units]>>,
     <<[name |-> <<"F","r","e","s","h"," ","T","o","m","a","t","o">>, quantity |-> 2 * Milli, unit |-> <<"p","i","e","c","e">>]>>,
     <<[name |-> <<"f","l","o","u","r">>, quantity |-> 1 * Milli, unit |-> <<"k","g">>]>>,
     <<[name |-> <<"m","i","l","k">>, quantity |-> 1 * Milli, unit |-> <<"l","i","t","e","r">>],
       [name |-> <<"t","o","m","a","t","o">>, quantity |-> 1 * Milli, unit |-> NoneStr]>>,
     <<[name |-> NoneStr, quantity |-> 1 * Milli, unit |-> s_units],
       [name |-> <<"t","o","m","a","t","o">>, quantity |-> 1 * Milli, unit |-> s_units]>>}

\* bodies of POST /api/shopping-list/add
ShoppingBodies ==
    {[name |-> <<"m","i","l","k">>, quantity |-> [num |-> 2 * Milli, unit |-> <<>>]],
     [name |-> <<"M","i","l","k">>, quantity |-> [num |-> 3 * Milli, unit |-> <<>>]]}

\* the shopping lists the calls start from: empty, or holding an entry that
\* was added and then ticked off
ShoppingStores ==
    {<<>>,
     <<[ShopRow(<<"m","i","l","k">>, [num |-> 1 * Milli, unit |-> <<>>], 1) EXCEPT !.checked = 1]>>}

ConfirmInit ==
    /\ inventory \in ConfirmStores
    /\ shopping \in ShoppingStores
    /\ pc = "idle"
    /\ state = BlankState
    /\ req = NoReq
    /\ trace = <<>>
    /\ nreq = 0
    /\ procs = NoProcs
    /\ reply = NoReply

\* an endpoint is called and replies
Reply(r) ==
    /\ nreq < MaxCalls
    /\ nreq' = nreq + 1
    /\ reply' = r
    /\ UNCHANGED <<pc, state, req, trace, procs>>

\* POST /api/meal-plan/confirm
ConfirmRequest(u, ingredients) ==
    \E out \in {confirm_meal_plan(inventory, shopping, u, ingredients)} :
        /\ inventory' = out.inv
        /\ shopping' = out.shop
        /\ Reply([endpoint |-> "confirm", user |-> u,
                  status |-> IF out.exc = "none" THEN 200 ELSE 500,
                  body |-> ingredients,
                  added |-> IF out.exc = "none" THEN out.added ELSE <<>>,
                  reduced |-> IF out.exc = "none" THEN out.reduced ELSE <<>>,
                  deleted |-> IF out.exc = "none" THEN out.deleted ELSE <<>>])

\* POST /api/shopping-list/add
add_shopping_list_item(u, item) ==
    LET w == db_add_shopping_list_item(shopping, u, item.name, item.quantity)
    IN  /\ shopping' = w.shop
        /\ UNCHANGED inventory
        /\ Reply([NoReply EXCEPT !.endpoint = "add", !.user = u, !.body = <<item>>,
                                 !.status = IF w.exc = "none" THEN 200 ELSE 500])

\* POST /api/shopping-list/{item_id}/toggle
toggle_shopping_list_item(u, item_id) ==
    LET w == db_toggle_shopping_list_item(shopping, u, item_id)
    IN  /\ shopping' = w.shop
        /\ UNCHANGED inventory
        /\ Reply([NoReply EXCEPT !.endpoint = "toggle", !.user = u,
                                 !.status = IF w.exc = "none" THEN 200 ELSE 404])

\* DELETE /api/shopping-list/{item_id}
delete_shopping_list_item(u, item_id) ==
    LET w == db_delete_shopping_list_item(shopping, u, item_id)
    IN  /\ shopping' = w.shop
        /\ UNCHANGED inventory
        /\ Reply([NoReply EXCEPT !.endpoint = "delete", !.user = u,
                                 !.status = IF w.exc = "none" THEN 200 ELSE 404])

ConfirmNext ==
    \/ \E u \in Users, ingredients \in ConfirmRequests : ConfirmRequest(u, ingredients)
    \/ \E u \in Users, item \in ShoppingBodies : add_shopping_list_item(u, item)
    \/ \E u \in Users, item_id \in 1..(Len(shopping) + 1) : toggle_shopping_list_item(u, item_id)
    \/ \E u \in Users, item_id \in 1..(Len(shopping) + 1) : delete_shopping_list_item(u, item_id)

ConfirmSpec == ConfirmInit /\ [][ConfirmNext]_vars

\* ------------------------------------------------------------------------
\* The content filter of recipe requests (app/utils/content_filter.py)

BLOCKED_TERMS ==
    <<<<"h","u","m","a","n">>, <<"p","e","r","s","o","n">>, <<"p","e","o","p","l","e">>, <<"b","a","b","y">>, <<"c","h","i","l","d">>, <<"m","a","n">>, <<"w","o","m","a","n">>, <<"f","l","e","s","h">>,
      <<"b","o","d","y">>, <<"c","o","r","p","s","e">>, <<"b","l","o","o","d">>, <<"o","r","g","a","n","s">>, <<"b","r","a","i","n">>,
      <<"d","o","g">>, <<"c","a","t">>, <<"p","u","p","p","y">>, <<"k","i","t","t","e","n">>, <<"p","e","t">>,
      <<"e","n","d","a","n","g","e","r","e","d">>, <<"p","r","o","t","e","c","t","e","d"," ","s","p","e","c","i","e","s">>,
      <<"e","l","e","p","h","a","n","t">>, <<"t","i","g","e","r">>, <<"l","i","o","n">>, <<"w","h","a","l","e">>, <<"d","o","l","p","h","i","n">>, <<"s","e","a","l">>, <<"p","a","n","d","a">>,
      <<"g","o","r","i","l","l","a">>, <<"c","h","i","m","p","a","n","z","e","e">>, <<"o","r","a","n","g","u","t","a","n">>, <<"m","o","n","k","e","y">>, <<"a","p","e">>,
      <<"p","o","i","s","o","n">>, <<"t","o","x","i","c">>, <<"c","y","a","n","i","d","e">>, <<"a","r","s","e","n","i","c">>, <<"b","l","e","a","c","h">>, <<"d","e","t","e","r","g","e","n","t">>,
      <<"r","a","t"," ","p","o","i","s","o","n">>, <<"p","e","s","t","i","c","i","d","e">>, <<"a","n","t","i","f","r","e","e","z","e">>,
      <<"p","l","a","s","t","i","c">>, <<"m","e","t","a","l">>, <<"g","l","a","s","s">>, <<"p","a","p","e","r">>, <<"c","a","r","d","b","o","a","r","d">>, <<"d","i","r","t">>, <<"m","u","d">>,
      <<"r","o","c","k">>, <<"s","t","o","n","e">>, <<"w","o","o","d">>, <<"g","a","s","o","l","i","n","e">>, <<"o","i","l">>, <<"g","r","e","a","s","e">>,
      <<"d","r","u","g">>, <<"m","a","r","i","j","u","a","n","a">>, <<"c","o","c","a","i","n","e">>, <<"h","e","r","o","i","n">>, <<"m","e","t","h">>, <<"n","a","r","c","o","t","i","c">>,
      <<"e","x","p","l","o","s","i","v","e">>, <<"g","u","n","p","o","w","d","e","r">>, <<"a","m","m","u","n","i","t","i","o","n">>,
      <<"m","a","g","g","o","t">>, <<"w","o","r","m">>, <<"c","o","c","k","r","o","a","c","h">>, <<"f","l","y">>, <<"m","o","s","q","u","i","t","o">>, <<"s","p","i","d","e","r">>,
      <<"u","r","i","n","e">>, <<"f","e","c","e","s">>, <<"v","o","m","i","t">>, <<"p","u","s">>, <<"m","u","c","u","s">>, <<"s","a","l","i","v","a">>, <<"s","p","i","t">>,
      <<"f","e","t","u","s">>, <<"p","l","a","c","e","n","t","a">>, <<"a","b","o","r","t","i","o","n">>>>

ALLOWED_EXCEPTIONS ==
    <<<<"h","u","m","a","n","e","l","y"," ","r","a","i","s","e","d">>, <<"h","u","m","a","n"," ","g","r","a","d","e">>, <<"h","u","m","a","n","e">>,
      <<"d","o","g","f","i","s","h">>,
      <<"c","a","t","n","i","p">>,
      <<"t","i","g","e","r"," ","p","r","a","w","n">>, <<"t","i","g","e","r"," ","s","h","r","i","m","p">>,
      <<"l","i","o","n","'","s"," ","m","a","n","e">>,
      <<"m","o","n","k","e","y"," ","b","r","e","a","d">>,
      <<"e","l","e","p","h","a","n","t"," ","e","a","r">>,
      <<"b","e","a","r"," ","c","l","a","w">>,
      <<"p","i","g","'","s"," ","e","a","r">>>>

\* re.search(r'\b' + re.escape(term) + r'\b', text) for a term that begins and
\* ends with a letter: an occurrence with no word character on either side
WordSearch(term, text) ==
    \E i \in 1..(Len(text) - Len(term) + 1) :
        /\ SubSeq(text, i, i + Len(term) - 1) = term
        /\ (i = 1 \/ ~IsWordChar(text[i - 1]))
        /\ (i + Len(term) - 1 = Len(text) \/ ~IsWordChar(text[i + Len(term)]))

\* re.search(r'\b' + a + r'\s+' + b + r'\b', text)
PhraseSearch(a, b, text) ==
    \E i \in 1..(Len(text) - Len(a) + 1), j \in 1..(Len(text) - Len(b) + 1) :
        /\ SubSeq(text, i, i + Len(a) - 1) = a
        /\ (i = 1 \/ ~IsWordChar(text[i - 1]))
        /\ j > i + Len(a)
        /\ \A k \in (i + Len(a))..(j - 1) : IsSpace(text[k])
        /\ SubSeq(text, j, j + Len(b) - 1) = b
        /\ (j + Len(b) - 1 = Len(text) \/ ~IsWordChar(text[j + Len(b)]))

harmful_patterns ==
    {<<<<"h","u","m","a","n">>, <<"m","e","a","t">>>>, <<<<"e","a","t">>, <<"h","u","m","a","n">>>>, <<<<"p","e","t">>, <<"m","e","a","t">>>>,
     <<<<"d","o","g">>, <<"m","e","a","t">>>>, <<<<"c","a","t">>, <<"m","e","a","t">>>>}

\* the loop over ALLOWED_EXCEPTIONS from the k-th on: each phrase is cut out
\* of what the phrases before it have left
RECURSIVE RemoveExceptions(_, _)
RemoveExceptions(request_lower, k) ==
    IF k > Len(ALLOWED_EXCEPTIONS) THEN request_lower
    ELSE RemoveExceptions(RemoveAll(request_lower, ALLOWED_EXCEPTIONS[k]), k + 1)

\* the one message of a blocked request
BlockedReason ==
    <<"W","e"," ","c","a","n","n","o","t"," ","g","e","n","e","r","a","t","e"," ","t","h","i","s"," ",
      "t","y","p","e"," ","o","f"," ","c","o","n","t","e","n","t","."," ","P","l","e","a","s","e"," ",
      "r","e","q","u","e","s","t"," ","a"," ","r","e","c","i","p","e"," ","w","i","t","h"," ","a","p",
      "p","r","o","p","r","i","a","t","e",","," ","e","d","i","b","l","e"," ","i","n","g","r","e","d",
      "i","e","n","t","s",".">>

\* the checks of is_safe on the text the allow-list has left
IsSafeChecks(request_lower) ==
    IF \E k \in DOMAIN BLOCKED_TERMS : WordSearch(BLOCKED_TERMS[k], request_lower)
    THEN [safe |-> FALSE, reason |-> BlockedReason]
    ELSE IF \E p \in harmful_patterns : PhraseSearch(p[1], p[2], request_lower)
         THEN [safe |-> FALSE, reason |-> BlockedReason]
         ELSE [safe |-> TRUE, reason |-> <<>>]

\* ContentFilter.is_safe, which check_recipe_request_safety hands on
is_safe_CaseSensitive(request_text) ==
    IF ~Truthy(request_text) THEN [safe |-> TRUE, reason |-> <<>>]
    ELSE IsSafeChecks(RemoveExceptions(Strip(request_text), 1))

is_safe(request_text) ==
    IF ~Truthy(request_text) THEN [safe |-> TRUE, reason |-> <<>>]
    ELSE IsSafeChecks(RemoveExceptions(Strip(Lower(request_text)), 1))

\* ------------------------------------------------------------------------
\* Guardrails (app/guardrails.py)
\* validate_prompt returns [ok, reason].

BLOCKED_KEYWORDS ==
    <<<<"v","i","o","l","e","n","c","e">>, <<"h","a","r","m">>, <<"k","i","l","l">>, <<"h","u","r","t">>, <<"a","t","t","a","c","k">>,
      <<"i","l","l","e","g","a","l">>, <<"d","r","u","g">>, <<"w","e","a","p","o","n">>, <<"e","x","p","l","o","s","i","v","e">>,
      <<"s","s","n">>, <<"c","r","e","d","i","t"," ","c","a","r","d">>, <<"p","a","s","s","w","o","r","d">>, <<"p","i","n">>,
      <<"e","x","p","l","i","c","i","t">>, <<"a","d","u","l","t"," ","c","o","n","t","e","n","t">>, <<"n","s","f","w">>>>

ILLEGAL_FOOD_ITEMS ==
    <<<<"h","u","m","a","n">>, <<"f","l","e","s","h">>, <<"c","a","n","n","i","b","a","l","i","s","m">>,
      <<"e","n","d","a","n","g","e","r","e","d"," ","s","p","e","c","i","e","s">>, <<"p","r","o","t","e","c","t","e","d"," ","s","p","e","c","i","e","s">>,
      <<"p","o","i","s","o","n","o","u","s"," ","m","u","s","h","r","o","o","m">>, <<"t","o","x","i","c"," ","p","l","a","n","t">>,
      <<"i","l","l","e","g","a","l"," ","d","r","u","g">>, <<"c","o","n","t","r","o","l","l","e","d"," ","s","u","b","s","t","a","n","c","e">>>>

RECIPE_BLOCKED_PATTERNS ==
    <<<<"p","o","i","s","o","n">>, <<"t","o","x","i","c">>, <<"h","a","r","m","f","u","l">>, <<"d","a","n","g","e","r","o","u","s">>,
      <<"l","e","t","h","a","l">>, <<"d","e","a","d","l","y">>, <<"f","a","t","a","l">>>>

RESTRICTED_FOOD_ITEMS ==
    <<<<"e","n","d","a","n","g","e","r","e","d">>, <<"p","r","o","t","e","c","t","e","d">>, <<"i","l","l","e","g","a","l"," ","t","o"," ","h","u","n","t">>,
      <<"b","a","n","n","e","d"," ","s","u","b","s","t","a","n","c","e">>, <<"c","o","n","t","r","o","l","l","e","d"," ","s","u","b","s","t","a","n","c","e">>>>

\* the heads and tails of illegal_patterns: head \s+ .* \s+ tail
illegal_patterns ==
    {<<<<"e","n","d","a","n","g","e","r","e","d">>, <<"r","e","c","i","p","e">>>>, <<<<"p","r","o","t","e","c","t","e","d">>, <<"c","o","o","k">>>>,
     <<<<"i","l","l","e","g","a","l">>, <<"f","o","o","d">>>>, <<<<"b","a","n","n","e","d">>, <<"i","n","g","r","e","d","i","e","n","t">>>>}

\* re.search(a + r'\s+.*\s+' + b, text): a, white space, anything but a line
\* break, white space, b
GapSearch(a, b, text) ==
    \E i \in 1..(Len(text) - Len(a) + 1), j \in 1..(Len(text) - Len(b) + 1) :
        /\ SubSeq(text, i, i + Len(a) - 1) = a
        /\ SubSeq(text, j, j + Len(b) - 1) = b
        /\ j - 1 > i + Len(a)
        /\ IsSpace(text[i + Len(a)])
        /\ IsSpace(text[j - 1])
        /\ \E p \in (i + Len(a))..(j - 2), q \in (i + Len(a) + 1)..(j - 1) :
              /\ p < q
              /\ \A k \in (i + Len(a))..p : IsSpace(text[k])
              /\ \A k \in q..(j - 1) : IsSpace(text[k])
              /\ \A k \in (p + 1)..(q - 1) : text[k] # "\n"

s_ILLEGAL_FOOD_ITEM == <<"I","L","L","E","G","A","L","_","F","O","O","D","_","I","T","E","M">>

MaxPromptLength == 5000

\* validate_prompt on prompt_lower, the lower-cased prompt of the given length
ValidateLowered(prompt_lower, length, context) ==
    IF \E k \in DOMAIN BLOCKED_KEYWORDS : WordSearch(BLOCKED_KEYWORDS[k], prompt_lower)
    THEN [ok |-> FALSE,
          reason |-> <<"P","r","o","m","p","t"," ","c","o","n","t","a","i","n","s"," ","i","n","a","p","p","r","o","p",
      "r","i","a","t","e"," ","c","o","n","t","e","n","t"," ","a","n","d"," ","c","a","n","n","o","t",
      " ","b","e"," ","p","r","o","c","e","s","s","e","d",".">>]
    ELSE IF context = "recipe"
            /\ \E k \in DOMAIN RECIPE_BLOCKED_PATTERNS :
                  IsSubstr(RECIPE_BLOCKED_PATTERNS[k], prompt_lower)
    THEN [ok |-> FALSE, reason |-> <<"R","e","c","i","p","e"," ","r","e","q","u","e","s","t"," ","c","o","n","t","a","i","n","s"," ",
      "u","n","s","a","f","e"," ","c","o","n","t","e","n","t",".">>]
    ELSE IF context = "recipe"
            /\ \/ \E k \in DOMAIN ILLEGAL_FOOD_ITEMS :
                     WordSearch(ILLEGAL_FOOD_ITEMS[k], prompt_lower)
               \/ \E k \in DOMAIN RESTRICTED_FOOD_ITEMS :
                     WordSearch(RESTRICTED_FOOD_ITEMS[k], prompt_lower)
               \/ \E p \in illegal_patterns : GapSearch(p[1], p[2], prompt_lower)
    THEN [ok |-> FALSE, reason |-> s_ILLEGAL_FOOD_ITEM]
    ELSE IF length > MaxPromptLength
    THEN [ok |-> FALSE,
          reason |-> <<"P","r","o","m","p","t"," ","i","s"," ","t","o","o"," ","l","o","n","g","."," ","P","l","e","a",
      "s","e"," ","k","e","e","p"," ","r","e","q","u","e","s","t","s"," ","u","n","d","e","r"," ","5",
      "0","0","0"," ","c","h","a","r","a","c","t","e","r","s",".">>]
    ELSE [ok |-> TRUE, reason |-> NoneStr]

validate_prompt(prompt, context) ==
    IF ~Truthy(prompt)
    THEN [ok |-> FALSE, reason |-> <<"P","r","o","m","p","t"," ","i","s"," ","e","m","p","t","y"," ","o","r"," ","i","n","v","a","l",
      "i","d">>]
    ELSE ValidateLowered(Lower(prompt), Len(prompt), context)

\* the dict {} of a reply that holds no key
EmptyDict == [kind |-> "empty"]

\* the names of the ingredients, joined by blanks
IngredientsText(ingredients) ==
    Join([i \in DOMAIN ingredients |-> ingredients[i].name])

validate_llm_response_NameOnly(response) ==
    IF response.name = NoneStr
    THEN [ok |-> FALSE, reason |-> NoneStr, raised |-> TRUE]
    ELSE IF \E k \in DOMAIN BLOCKED_KEYWORDS : WordSearch(BLOCKED_KEYWORDS[k], Lower(response.name))
    THEN [ok |-> FALSE, reason |-> <<"G","e","n","e","r","a","t","e","d"," ","r","e","c","i","p","e"," ","c","o","n","t","a","i","n",
      "s"," ","i","n","a","p","p","r","o","p","r","i","a","t","e"," ","c","o","n","t","e","n","t",".">>,
          raised |-> FALSE]
    ELSE [ok |-> TRUE, reason |-> NoneStr, raised |-> FALSE]

\* response is the dict {}, or a dict that holds a name (a string, or None:
\* then .lower() raises AttributeError), instructions (a list of strings) and
\* ingredients (a list of dicts): [ok, reason, raised]
validate_llm_response(response) ==
    IF response = EmptyDict
    THEN [ok |-> TRUE, reason |-> NoneStr, raised |-> FALSE]
    ELSE IF response.name = NoneStr
    THEN [ok |-> FALSE, reason |-> NoneStr, raised |-> TRUE]
    ELSE IF \E k \in DOMAIN BLOCKED_KEYWORDS : WordSearch(BLOCKED_KEYWORDS[k], Lower(response.name))
    THEN [ok |-> FALSE, reason |-> <<"G","e","n","e","r","a","t","e","d"," ","r","e","c","i","p","e"," ","c","o","n","t","a","i","n",
      "s"," ","i","n","a","p","p","r","o","p","r","i","a","t","e"," ","c","o","n","t","e","n","t",".">>,
          raised |-> FALSE]
    ELSE IF \E k \in DOMAIN BLOCKED_KEYWORDS :
               WordSearch(BLOCKED_KEYWORDS[k], Lower(Join(response.instructions)))
    THEN [ok |-> FALSE, reason |-> <<"R","e","c","i","p","e"," ","i","n","s","t","r","u","c","t","i","o","n","s"," ","c","o","n","t",
      "a","i","n"," ","i","n","a","p","p","r","o","p","r","i","a","t","e"," ","c","o","n","t","e","n",
      "t",".">>,
          raised |-> FALSE]
    ELSE IF \E k \in DOMAIN ILLEGAL_FOOD_ITEMS :
               IsSubstr(ILLEGAL_FOOD_ITEMS[k], Lower(IngredientsText(response.ingredients)))
    THEN [ok |-> FALSE, reason |-> s_ILLEGAL_FOOD_ITEM, raised |-> FALSE]
    ELSE [ok |-> TRUE, reason |-> NoneStr, raised |-> FALSE]

\* the characters sanitize_prompt keeps: those of code 32 and above, and
\* the line break
Printable(c) == c # "\t"

\* " ".join(s.split()): the runs of white space shrink to one blank each,
\* those at either end to nothing
CollapseSpaces(s) ==
    LET marked == [i \in DOMAIN s |->
                     [c |-> s[i],
                      keep |-> IF IsSpace(s[i])
                               THEN /\ i > 1
                                    /\ ~IsSpace(s[i - 1])
                                    /\ \E j \in (i + 1)..Len(s) : ~IsSpace(s[j])
                               ELSE TRUE]]
        kept == SelectSeq(marked, LAMBDA m : m.keep)
    IN  [i \in DOMAIN kept |-> IF IsSpace(kept[i].c) THEN " " ELSE kept[i].c]

sanitize_prompt(prompt) ==
    IF ~Truthy(prompt) THEN <<>>
    ELSE CollapseSpaces(SelectSeq(prompt, Printable))

get_ethical_response_for_illegal_item ==
    [name |-> <<"R","e","c","i","p","e"," ","N","o","t"," ","A","v","a","i","l","a","b","l","e">>,
     description |-> <<"I"," ","a","p","o","l","o","g","i","z","e",","," ","b","u","t"," ","I"," ","d","o","n","'","t",
      " ","h","a","v","e"," ","a","c","c","e","s","s"," ","t","o"," ","r","e","c","i","p","e","s"," ",
      "i","n","v","o","l","v","i","n","g"," ","r","e","s","t","r","i","c","t","e","d"," ","o","r"," ",
      "i","l","l","e","g","a","l"," ","f","o","o","d"," ","i","t","e","m","s","."," ","I"," ","c","a",
      "n"," ","h","e","l","p"," ","y","o","u"," ","f","i","n","d"," ","d","e","l","i","c","i","o","u",
      "s"," ","a","n","d"," ","s","a","f","e"," ","r","e","c","i","p","e","s"," ","u","s","i","n","g",
      " ","c","o","m","m","o","n","l","y"," ","a","v","a","i","l","a","b","l","e"," ","i","n","g","r",
      "e","d","i","e","n","t","s"," ","i","n","s","t","e","a","d",".">>,
     servings |-> 4,
     ingredients |-> <<>>,
     instructions |->
        <<<<"I","'","m"," ","u","n","a","b","l","e"," ","t","o"," ","p","r","o","v","i","d","e"," ","r","e",
      "c","i","p","e","s"," ","f","o","r"," ","r","e","s","t","r","i","c","t","e","d"," ","o","r"," ",
      "i","l","l","e","g","a","l"," ","f","o","o","d"," ","i","t","e","m","s",".">>,
          <<"W","o","u","l","d"," ","y","o","u"," ","l","i","k","e"," ","m","e"," ","t","o"," ","s","u","g",
      "g","e","s","t"," ","a","n"," ","a","l","t","e","r","n","a","t","i","v","e"," ","r","e","c","i",
      "p","e"," ","u","s","i","n","g"," ","s","a","f","e",","," ","l","e","g","a","l"," ","i","n","g",
      "r","e","d","i","e","n","t","s","?">>,
          <<"I"," ","c","a","n"," ","h","e","l","p"," ","y","o","u"," ","f","i","n","d"," ","r","e","c","i",
      "p","e","s"," ","b","a","s","e","d"," ","o","n"," ","y","o","u","r"," ","d","i","e","t","a","r",
      "y"," ","p","r","e","f","e","r","e","n","c","e","s"," ","a","n","d"," ","a","v","a","i","l","a",
      "b","l","e"," ","i","n","g","r","e","d","i","e","n","t","s",".">>>>]

\* ------------------------------------------------------------------------
\* The LLM client (app/llm/llm_client.py)
\* A recipe is [name, description, servings, ingredients, instructions], an
\* ingredient [name, quantity, unit]; generate_recipe returns the recipe
\* (NoneDict when it raises), the recipe the backend produced (NoneDict when
\* it was not called), whether it was called and whether the call raised.

\* LLMClient reads GUARDRAILS_ENABLED from app.config, where the repository
\* defines none; the specification has the guardrail applied before and after
\* every generative call, so the switch is on
GUARDRAILS_ENABLED == TRUE

\* the payload of a request or response the guardrails turned down
Refusal(name, error_msg) ==
    [name |-> name,
     description |-> error_msg,
     servings |-> 4,
     ingredients |-> <<>>,
     instructions |->
        <<<<"I"," ","d","o","n","'","t"," ","h","a","v","e"," ","a","c","c","e","s","s"," ","t","o"," ","r",
      "e","c","i","p","e","s"," ","o","r"," ","i","n","f","o","r","m","a","t","i","o","n"," ","a","b",
      "o","u","t"," ","r","e","s","t","r","i","c","t","e","d"," ","o","r"," ","i","l","l","e","g","a",
      "l"," ","f","o","o","d"," ","i","t","e","m","s","."," ","P","l","e","a","s","e"," ","t","r","y",
      " ","a"," ","d","i","f","f","e","r","e","n","t"," ","r","e","c","i","p","e"," ","r","e","q","u",
      "e","s","t",".">>>>]

s_RequestCannotBeProcessed == <<"R","e","q","u","e","s","t"," ","C","a","n","n","o","t"," ","B","e"," ","P","r","o","c","e","s",
      "s","e","d">>

s_ResponseCannotBeDisplayed == <<"R","e","s","p","o","n","s","e"," ","C","a","n","n","o","t"," ","B","e"," ","D","i","s","p","l",
      "a","y","e","d">>

\* the positions of the character c in text, ascending
Positions(text, c) == SelectSeq([i \in 1..Len(text) |-> i], LAMBDA i : text[i] = c)

\* text.split(c)
SplitOn(text, c) ==
    LET ends == Positions(text, c) \o <<Len(text) + 1>>
    IN  [k \in 1..Len(ends) |-> SubSeq(text, (IF k = 1 THEN 1 ELSE ends[k - 1] + 1), ends[k] - 1)]

\* s.strip(chars)
RECURSIVE LStripChars(_, _)
LStripChars(s, chars) == IF s # <<>> /\ Head(s) \in chars THEN LStripChars(Tail(s), chars) ELSE s

RECURSIVE RStripChars(_, _)
RStripChars(s, chars) ==
    IF s # <<>> /\ s[Len(s)] \in chars THEN RStripChars(SubSeq(s, 1, Len(s) - 1), chars) ELSE s

\* float(tok) of a decimal numeral such as 12 or 12.5, in thousandths;
\* NoneNum where float raises ValueError
ParseFloat(tok) ==
    LET dots  == Positions(tok, ".")
        whole == IF dots = <<>> THEN tok ELSE SubSeq(tok, 1, dots[1] - 1)
        frac  == IF dots = <<>> THEN <<>> ELSE SubSeq(tok, dots[1] + 1, Len(tok))
    IN  IF Len(dots) > 1 \/ ~IsNumeral(whole \o frac) THEN NoneNum
        ELSE NumeralValue(whole) * Milli + NumeralValue(SubSeq(frac \o <<"0", "0", "0">>, 1, 3))

\* the ingredient _mock_generate_recipe reads from a line "- name: quantity
\* unit" of the prompt: a sequence of one ingredient, or of none
MockIngredient(line) ==
    LET ingredient_text == Strip(RStripChars(LStripChars(line, {"-", " "}), {"-", " "}))
        parts           == SplitOn(ingredient_text, ":")
        quantity_unit   == IF Len(parts) >= 2 THEN Split(Strip(parts[2]), <<>>) ELSE <<>>
    IN  IF Len(quantity_unit) >= 2 /\ ParseFloat(quantity_unit[1]) # NoneNum
        THEN <<[name |-> Strip(parts[1]),
                quantity |-> IF ParseFloat(quantity_unit[1]) < 2 * Milli
                             THEN ParseFloat(quantity_unit[1]) ELSE 2 * Milli,
                unit |-> quantity_unit[2]]>>
        ELSE <<>>

RECURSIVE MockIngredients(_)
MockIngredients(lines) ==
    IF lines = <<>> THEN <<>> ELSE MockIngredient(lines[1]) \o MockIngredients(Tail(lines))

\* the lines _mock_generate_recipe reads ingredients from: those that start
\* with "-" after the first line holding "Available ingredients", up to the
\* first line that is neither blank nor starts with "-"
InventorySection(prompt) ==
    LET lines == SplitOn(prompt, "\n")
        marks == {k \in DOMAIN lines : IsSubstr(<<"A","v","a","i","l","a","b","l","e"," ","i","n","g","r","e","d","i","e","n","t","s">>, lines[k])}
        first == IF marks = {} THEN Len(lines) + 1 ELSE Min(marks)
        stops == {k \in DOMAIN lines : /\ k > first
                                       /\ k \notin marks
                                       /\ Strip(lines[k]) # <<>>
                                       /\ Head(Strip(lines[k])) # "-"}
        stop  == IF stops = {} THEN Len(lines) + 1 ELSE Min(stops)
    IN  SelectSeq(SubSeq(lines, first + 1, stop - 1),
                  LAMBDA line : ~IsSubstr(<<"A","v","a","i","l","a","b","l","e"," ","i","n","g","r","e","d","i","e","n","t","s">>, line) /\ Strip(line) # <<>>)

\* ', '.join(names)
RECURSIVE JoinNames(_)
JoinNames(ingredients) ==
    IF ingredients = <<>> THEN <<>>
    ELSE ingredients[1].name
         \o (IF Len(ingredients) = 1 THEN <<>> ELSE <<","," ">> \o JoinNames(Tail(ingredients)))

\* _mock_generate_recipe once the ingredients have been read from the prompt
MockRecipe(ingredients) ==
    IF ingredients = <<>>
    THEN [name |-> <<"R","e","c","i","p","e"," ","G","e","n","e","r","a","t","i","o","n"," ","N","o","t"," ","C","o",
      "n","f","i","g","u","r","e","d">>,
          description |-> <<"P","l","e","a","s","e"," ","a","d","d"," ","y","o","u","r"," ","O","p","e","n","A","I"," ","A",
      "P","I"," ","k","e","y"," ","t","o"," ","t","h","e"," ",".","e","n","v"," ","f","i","l","e"," ",
      "t","o"," ","e","n","a","b","l","e"," ","A","I"," ","r","e","c","i","p","e"," ","g","e","n","e",
      "r","a","t","i","o","n",".">>,
          servings |-> 4,
          ingredients |-> <<>>,
          instructions |->
             <<<<"A","d","d"," ","i","n","g","r","e","d","i","e","n","t","s"," ","t","o"," ","y","o","u","r"," ",
      "i","n","v","e","n","t","o","r","y"," ","f","i","r","s","t">>,
               <<"C","o","n","f","i","g","u","r","e"," ","O","p","e","n","A","I"," ","A","P","I"," ","k","e","y",
      " ","i","n"," ",".","e","n","v"," ","f","i","l","e"," ","f","o","r"," ","A","I","-","p","o","w",
      "e","r","e","d"," ","r","e","c","i","p","e"," ","g","e","n","e","r","a","t","i","o","n">>,
               <<"S","e","t"," ","U","S","E","_","M","O","C","K","_","L","L","M","=","f","a","l","s","e"," ","i",
      "n"," ",".","e","n","v"," ","t","o"," ","e","n","a","b","l","e"," ","A","I"," ","f","e","a","t",
      "u","r","e","s">>>>]
    ELSE [name |-> <<"S","i","m","p","l","e"," ","R","e","c","i","p","e"," ","w","i","t","h"," ","Y","o","u","r"," ",
      "I","n","g","r","e","d","i","e","n","t","s">>,
          description |-> <<"A"," ","b","a","s","i","c"," ","r","e","c","i","p","e"," ","u","s","i","n","g"," ","i","n","g",
      "r","e","d","i","e","n","t","s"," ","f","r","o","m"," ","y","o","u","r"," ","i","n","v","e","n",
      "t","o","r","y","."," ","T","o"," ","g","e","t"," ","A","I","-","p","o","w","e","r","e","d"," ",
      "r","e","c","i","p","e","s"," ","w","i","t","h"," ","d","e","t","a","i","l","e","d"," ","i","n",
      "s","t","r","u","c","t","i","o","n","s"," ","a","n","d"," ","c","o","o","k","i","n","g"," ","t",
      "i","p","s",","," ","c","o","n","f","i","g","u","r","e"," ","y","o","u","r"," ","O","p","e","n",
      "A","I"," ","A","P","I"," ","k","e","y"," ","i","n"," ","t","h","e"," ",".","e","n","v"," ","f",
      "i","l","e",".">>,
          servings |-> 4,
          ingredients |-> ingredients,
          instructions |->
             <<<<"P","r","e","p","a","r","e"," ","a","n","d"," ","w","a","s","h"," ","a","l","l"," ","i","n","g",
      "r","e","d","i","e","n","t","s"," ","t","h","o","r","o","u","g","h","l","y">>,
               <<"C","o","m","b","i","n","e"," ">> \o JoinNames(SubSeq(ingredients, 1, IF Len(ingredients) < 3 THEN Len(ingredients) ELSE 3))
                    \o <<" ","i","n"," ","a"," ","l","a","r","g","e"," ","b","o","w","l"," ","o","r"," ","p","a","n">>,
               <<"C","o","o","k"," ","a","c","c","o","r","d","i","n","g"," ","t","o"," ","y","o","u","r"," ","p",
      "r","e","f","e","r","r","e","d"," ","m","e","t","h","o","d"," ","a","n","d"," ","t","a","s","t",
      "e">>,
               <<"S","e","a","s","o","n"," ","w","i","t","h"," ","s","a","l","t",","," ","p","e","p","p","e","r",
      ","," ","a","n","d"," ","s","p","i","c","e","s"," ","a","s"," ","d","e","s","i","r","e","d">>,
               <<"S","e","r","v","e"," ","h","o","t"," ","a","n","d"," ","e","n","j","o","y","!">>,
               <<>>,
               <<"N","o","t","e",":"," ","T","h","i","s"," ","i","s"," ","a"," ","b","a","s","i","c"," ","r","e",
      "c","i","p","e"," ","t","e","m","p","l","a","t","e","."," ","F","o","r"," ","A","I","-","g","e",
      "n","e","r","a","t","e","d"," ","d","e","t","a","i","l","e","d"," ","r","e","c","i","p","e","s",
      " ","w","i","t","h"," ","c","o","o","k","i","n","g"," ","t","i","m","e","s"," ","a","n","d"," ",
      "s","p","e","c","i","f","i","c"," ","t","e","c","h","n","i","q","u","e","s",","," ","p","l","e",
      "a","s","e"," ","c","o","n","f","i","g","u","r","e"," ","y","o","u","r"," ","O","p","e","n","A",
      "I"," ","A","P","I"," ","k","e","y"," ","i","n"," ","t","h","e"," ",".","e","n","v"," ","f","i",
      "l","e"," ","a","n","d"," ","s","e","t"," ","U","S","E","_","M","O","C","K","_","L","L","M","=",
      "f","a","l","s","e">>>>]

_mock_generate_recipe(prompt) == MockRecipe(MockIngredients(InventorySection(prompt)))

\* what the backend hands back: the JSON object of the model's reply, or the
\* mock recipe when use_mock is set, the API call fails or the reply is no JSON
_openai_generate_recipe(prompt, out) ==
    IF out.kind = "json" THEN out.recipe ELSE _mock_generate_recipe(prompt)

\* the second half of generate_recipe, after the prompt has passed
GenerateValidated(result, verdict) ==
    [recipe |-> IF verdict.raised THEN NoneDict
                ELSE IF verdict.ok THEN result
                ELSE IF verdict.reason = s_ILLEGAL_FOOD_ITEM
                     THEN get_ethical_response_for_illegal_item
                     ELSE Refusal(s_ResponseCannotBeDisplayed, verdict.reason),
     produced |-> result,
     invoked |-> TRUE,
     raised |-> verdict.raised]

\* generate_recipe once the prompt has been sanitized and validated
GenerateSanitized(sanitized_prompt, verdict, out) ==
    IF ~verdict.ok
    THEN [recipe |-> IF verdict.reason = s_ILLEGAL_FOOD_ITEM
                     THEN get_ethical_response_for_illegal_item
                     ELSE Refusal(s_RequestCannotBeProcessed, verdict.reason),
          produced |-> NoneDict,
          invoked |-> FALSE,
          raised |-> FALSE]
    ELSE GenerateValidated(_openai_generate_recipe(sanitized_prompt, out),
                           validate_llm_response(_openai_generate_recipe(sanitized_prompt, out)))

\* LLMClient.generate_recipe of the client self, with tracing off (app.config
\* defines no OPIK_ENABLED, which leaves OPIK_AVAILABLE False)
LLMClient_generate_recipe(self, prompt, out) ==
    IF self.guardrails_enabled
    THEN GenerateSanitized(sanitize_prompt(prompt),
                           validate_prompt(sanitize_prompt(prompt), "recipe"), out)
    ELSE [recipe |-> _openai_generate_recipe(prompt, out),
          produced |-> _openai_generate_recipe(prompt, out),
          invoked |-> TRUE,
          raised |-> FALSE]

\* the client LLMClient() builds: guardrails_enabled is GUARDRAILS_ENABLED and
\* GUARDRAILS_AVAILABLE, and app.guardrails is there to import
LLMClient == [guardrails_enabled |-> GUARDRAILS_ENABLED]

\* generate_recipe of that client
generate_recipe(prompt, out) == LLMClient_generate_recipe(LLMClient, prompt, out)

\* ------------------------------------------------------------------------
\* The planner agent (app/agents/planner_agent.py)

\* str(n) of a natural number
RECURSIVE NumStr(_)
NumStr(n) == IF n < 10 THEN <<Digits[n + 1]>> ELSE NumStr(n \div 10) \o <<Digits[(n % 10) + 1]>>

\* the decimals of a quantity in thousandths, without trailing zeros
Decimals(m) ==
    IF m = 0 THEN <<"0">>
    ELSE IF m % 100 = 0 THEN NumStr(m \div 100)
    ELSE IF m % 10 = 0 THEN <<Digits[(m \div 100) + 1]>> \o NumStr((m \div 10) % 10)
    ELSE <<Digits[(m \div 100) + 1], Digits[((m \div 10) % 10) + 1], Digits[(m % 10) + 1]>>

\* str(q) of a float quantity: 2.0, 1.5, 0.25
FloatStr(q) == NumStr(q \div Milli) \o <<".">> \o Decimals(q % Milli)

\* "- name: quantity unit", one line for each item
RECURSIVE InventoryText(_)
InventoryText(items) ==
    IF items = <<>> THEN <<>>
    ELSE <<"-"," ">> \o items[1].name \o <<":"," ">> \o FloatStr(items[1].quantity)
         \o <<" ">> \o items[1].unit
         \o (IF Len(items) = 1 THEN <<>> ELSE <<"\n">> \o InventoryText(Tail(items)))

\* the head of the prompt, up to the inventory list (without its pictographs)
PromptHead ==
    <<"G","e","n","e","r","a","t","e"," ","a"," ","d","e","t","a","i","l","e","d"," ","r","e","c","i",
      "p","e"," ","b","a","s","e","d"," ","o","n"," ","t","h","e"," ","f","o","l","l","o","w","i","n",
      "g"," ","a","v","a","i","l","a","b","l","e"," ","i","n","g","r","e","d","i","e","n","t","s"," ",
      "a","n","d"," ","r","e","q","u","i","r","e","m","e","n","t","s",".","\n","\n">>
    \o <<"S","A","F","E","T","Y"," ","W","A","R","N","I","N","G"," ","-"," ","A","B","S","O","L","U","T",
      "E"," ","P","R","O","H","I","B","I","T","I","O","N","S",":","\n","Y","o","u"," ","M","U","S","T",
      " ","N","O","T"," ","c","r","e","a","t","e"," ","r","e","c","i","p","e","s"," ","c","o","n","t",
      "a","i","n","i","n","g",":","\n">>
    \o <<"-"," ","H","u","m","a","n"," ","m","e","a","t",","," ","f","l","e","s","h",","," ","o","r"," ",
      "b","o","d","y"," ","p","a","r","t","s","\n","-"," ","P","e","t","s"," ","(","d","o","g","s",",",
      " ","c","a","t","s",","," ","e","t","c",".",")","\n">>
    \o <<"-"," ","E","n","d","a","n","g","e","r","e","d"," ","o","r"," ","p","r","o","t","e","c","t","e",
      "d"," ","a","n","i","m","a","l","s","\n","-"," ","T","o","x","i","c",","," ","p","o","i","s","o",
      "n","o","u","s",","," ","o","r"," ","h","a","r","m","f","u","l"," ","s","u","b","s","t","a","n",
      "c","e","s","\n">>
    \o <<"-"," ","I","n","e","d","i","b","l","e"," ","i","t","e","m","s"," ","(","p","l","a","s","t","i",
      "c",","," ","m","e","t","a","l",","," ","d","i","r","t",","," ","e","t","c",".",")","\n","-"," ",
      "I","l","l","e","g","a","l"," ","d","r","u","g","s"," ","o","r"," ","d","a","n","g","e","r","o",
      "u","s"," ","s","u","b","s","t","a","n","c","e","s","\n">>
    \o <<"-"," ","A","n","y"," ","u","n","e","t","h","i","c","a","l",","," ","h","a","r","m","f","u","l",
      ","," ","o","r"," ","i","n","a","p","p","r","o","p","r","i","a","t","e"," ","i","n","g","r","e",
      "d","i","e","n","t","s","\n","\n">>
    \o <<"O","N","L","Y"," ","c","r","e","a","t","e"," ","r","e","c","i","p","e","s"," ","w","i","t","h",
      " ","l","e","g","i","t","i","m","a","t","e",","," ","s","a","f","e",","," ","e","d","i","b","l",
      "e"," ","f","o","o","d"," ","i","n","g","r","e","d","i","e","n","t","s"," ","t","h","a","t"," ",
      "a","r","e"," ","c","u","l","t","u","r","a","l","l","y"," ","a","p","p","r","o","p","r","i","a",
      "t","e"," ","a","n","d"," ","e","t","h","i","c","a","l",".","\n","\n">>
    \o <<"A","v","a","i","l","a","b","l","e"," ","i","n","g","r","e","d","i","e","n","t","s"," ","i","n",
      " ","i","n","v","e","n","t","o","r","y",":","\n">>

\* the message of the ValueError raised for a request the filter turns down
s_CannotGenerate ==
    <<"W","e"," ","c","a","n","n","o","t"," ","g","e","n","e","r","a","t","e"," ","t","h","i","s"," ",
      "t","y","p","e"," ","o","f"," ","c","o","n","t","e","n","t","."," ","P","l","e","a","s","e"," ",
      "r","e","q","u","e","s","t"," ","a"," ","r","e","c","i","p","e"," ","w","i","t","h"," ","a","p",
      "p","r","o","p","r","i","a","t","e"," ","i","n","g","r","e","d","i","e","n","t","s",".">>

\* [raised, prompt]. Of the prompt the model keeps the head, the inventory
\* list, the servings and the first naming of the requested dish; the parts
\* left out (the inventory constraint, the examples about tea and paneer, the
\* reply format) repeat the item names and the dish and hold none of the
\* words of the guardrail lists.
_build_recipe_prompt(items, preferences, servings) ==
    IF Truthy(preferences) /\ ~is_safe(preferences).safe
    THEN [raised |-> TRUE, prompt |-> <<>>]
    ELSE [raised |-> FALSE,
          prompt |-> PromptHead \o InventoryText(items)
                     \o <<"\n","\n","R","e","q","u","i","r","e","m","e","n","t","s",":","\n","-"," ","N","u","m","b","e","r",
      " ","o","f"," ","s","e","r","v","i","n","g","s",":"," ">> \o NumStr(servings) \o <<"\n">>
                     \o (IF Truthy(preferences)
                         THEN <<"\n","-"," ","R","E","Q","U","E","S","T","E","D"," ","D","I","S","H",":"," ">> \o <<"\"">> \o preferences \o <<"\"">> \o <<"\n">>
                         ELSE <<>>)]

\* the recipe of suggest_recipe's outer except
ErrorRecipe(e, servings) ==
    [name |-> <<"E","r","r","o","r"," ","G","e","n","e","r","a","t","i","n","g"," ","R","e","c","i","p","e">>,
     description |-> <<"W","e"," ","e","n","c","o","u","n","t","e","r","e","d"," ","a","n"," ","e","r","r","o","r"," ",
      "w","h","i","l","e"," ","g","e","n","e","r","a","t","i","n","g"," ","y","o","u","r"," ","m","e",
      "a","l"," ","p","l","a","n","."," ","P","l","e","a","s","e"," ","t","r","y"," ","a","g","a","i",
      "n"," ","o","r"," ","c","o","n","t","a","c","t"," ","s","u","p","p","o","r","t"," ","i","f"," ",
      "t","h","e"," ","p","r","o","b","l","e","m"," ","p","e","r","s","i","s","t","s","."," ","E","r",
      "r","o","r"," ","d","e","t","a","i","l","s",":"," ">> \o e,
     ingredients |-> <<>>,
     instructions |-> <<<<"P","l","e","a","s","e"," ","t","r","y"," ","a","g","a","i","n"," ","w","i","t","h"," ","d","i",
      "f","f","e","r","e","n","t"," ","p","r","e","f","e","r","e","n","c","e","s">>,
                        <<"M","a","k","e"," ","s","u","r","e"," ","y","o","u","r"," ","i","n","v","e","n","t","o","r","y",
      " ","h","a","s"," ","i","n","g","r","e","d","i","e","n","t","s">>>>,
     servings |-> servings]

NoIngredientsAvailable(servings) ==
    [name |-> <<"N","o"," ","I","n","g","r","e","d","i","e","n","t","s"," ","A","v","a","i","l","a","b","l","e">>,
     description |-> <<"Y","o","u","r"," ","i","n","v","e","n","t","o","r","y"," ","i","s"," ","e","m","p","t","y",".",
      " ","P","l","e","a","s","e"," ","a","d","d"," ","s","o","m","e"," ","i","n","g","r","e","d","i",
      "e","n","t","s"," ","t","o"," ","y","o","u","r"," ","i","n","v","e","n","t","o","r","y"," ","f",
      "i","r","s","t",","," ","t","h","e","n"," ","t","r","y"," ","g","e","n","e","r","a","t","i","n",
      "g"," ","a"," ","m","e","a","l"," ","p","l","a","n"," ","a","g","a","i","n",".">>,
     ingredients |-> <<>>,
     instructions |-> <<<<"A","d","d"," ","i","n","g","r","e","d","i","e","n","t","s"," ","t","o"," ","y","o","u","r"," ",
      "i","n","v","e","n","t","o","r","y"," ","f","r","o","m"," ","t","h","e"," ","I","n","v","e","n",
      "t","o","r","y"," ","p","a","g","e">>>>,
     servings |-> servings]

\* "name (quantity unit)" of the items, joined by ", "
RECURSIVE AvailableItems(_)
AvailableItems(items) ==
    IF items = <<>> THEN <<>>
    ELSE items[1].name \o <<" ","(">> \o FloatStr(items[1].quantity) \o <<" ">> \o items[1].unit \o <<")">>
         \o (IF Len(items) = 1 THEN <<>> ELSE <<","," ">> \o AvailableItems(Tail(items)))

_create_fallback_recipe(items, servings, preferences) ==
    LET first == SubSeq(items, 1, IF Len(items) < 5 THEN Len(items) ELSE 5)
    IN  [name |-> <<"S","i","m","p","l","e"," ">> \o (IF Truthy(preferences) THEN preferences \o <<" ">> ELSE <<>>)
                  \o <<"M","e","a","l"," ","w","i","t","h"," ","A","v","a","i","l","a","b","l","e"," ","I","n","g","r",
      "e","d","i","e","n","t","s">>,
         description |-> <<"A"," ","b","a","s","i","c"," ","r","e","c","i","p","e"," ","s","u","g","g","e","s","t","i","o",
      "n"," ","u","s","i","n","g"," ","i","n","g","r","e","d","i","e","n","t","s"," ","f","r","o","m",
      " ","y","o","u","r"," ","i","n","v","e","n","t","o","r","y","."," ","W","e"," ","h","a","d"," ",
      "t","r","o","u","b","l","e"," ","g","e","n","e","r","a","t","i","n","g"," ","a"," ","d","e","t",
      "a","i","l","e","d"," ","r","e","c","i","p","e"," ","f","r","o","m"," ","t","h","e"," ","A","I",
      ","," ","b","u","t"," ","h","e","r","e","'","s"," ","w","h","a","t"," ","y","o","u"," ","c","a",
      "n"," ","m","a","k","e"," ","w","i","t","h",":"," ">>
                  \o AvailableItems(first),
         ingredients |-> [i \in DOMAIN first |->
                            [name |-> first[i].name,
                             quantity |-> IF first[i].quantity < 2 * Milli
                                          THEN first[i].quantity ELSE 2 * Milli,
                             unit |-> first[i].unit]],
         instructions |->
            <<<<"P","r","e","p","a","r","e"," ","a","n","d"," ","c","l","e","a","n"," ","a","l","l"," ","i","n",
      "g","r","e","d","i","e","n","t","s">>,
              <<"C","o","m","b","i","n","e"," ","i","n","g","r","e","d","i","e","n","t","s"," ","a","c","c","o",
      "r","d","i","n","g"," ","t","o"," ","y","o","u","r"," ","p","r","e","f","e","r","e","n","c","e",
      "s">>,
              <<"C","o","o","k"," ","u","n","t","i","l"," ","d","o","n","e"," ","t","o"," ","y","o","u","r"," ",
      "l","i","k","i","n","g">>,
              <<"S","e","a","s","o","n"," ","t","o"," ","t","a","s","t","e"," ","a","n","d"," ","s","e","r","v",
      "e">>,
              <<"N","o","t","e",":"," ","T","h","i","s"," ","i","s"," ","a"," ","b","a","s","i","c"," ","s","u",
      "g","g","e","s","t","i","o","n","."," ","F","o","r"," ","d","e","t","a","i","l","e","d"," ","r",
      "e","c","i","p","e","s",","," ","p","l","e","a","s","e"," ","e","n","s","u","r","e"," ","y","o",
      "u","r"," ","L","L","M"," ","A","P","I"," ","k","e","y"," ","i","s"," ","c","o","n","f","i","g",
      "u","r","e","d"," ","c","o","r","r","e","c","t","l","y",".">>>>,
         servings |-> servings]

\* ing.get("quantity", 0): an ingredient that holds no quantity counts as 0
QuantityOrZero(ing) == IF ing.quantity = NoneNum THEN 0 ELSE ing.quantity

\* round(quantity * scale_factor, 2) of each ingredient, in thousandths
_scale_recipe(recipe, servings) ==
    [recipe EXCEPT !.ingredients =
        [i \in DOMAIN recipe.ingredients |->
            [recipe.ingredients[i] EXCEPT !.quantity =
                ((QuantityOrZero(recipe.ingredients[i]) * servings * 2 + 10 * recipe.servings)
                    \div (20 * recipe.servings)) * 10]]]

\* suggest_recipe from "Ensure required fields exist" on
SuggestFinish(recipe, servings) ==
    LET named == [recipe EXCEPT
                    !.name = IF ~Truthy(recipe.name) THEN <<"G","e","n","e","r","a","t","e","d"," ","R","e","c","i","p","e">> ELSE recipe.name,
                    !.description = IF ~Truthy(recipe.description)
                                    THEN <<"A"," ","r","e","c","i","p","e"," ","b","a","s","e","d"," ","o","n"," ","y","o","u","r"," ","a",
      "v","a","i","l","a","b","l","e"," ","i","n","g","r","e","d","i","e","n","t","s">>
                                    ELSE recipe.description]
        scaled == IF named.servings # 0 /\ named.servings # servings
                  THEN _scale_recipe(named, servings) ELSE named
    IN  [scaled EXCEPT !.servings = servings]

\* suggest_recipe once generate_recipe has returned or raised: the fallback
\* recipe stands in when it raised and when the recipe is falsy (the dict {})
SuggestGenerated(generated, items, preferences, servings) ==
    [recipe |-> IF generated.raised \/ generated.recipe = EmptyDict
                THEN _create_fallback_recipe(items, servings, preferences)
                ELSE SuggestFinish(generated.recipe, servings),
     produced |-> generated.produced,
     invoked |-> generated.invoked,
     cached |-> ~(generated.raised \/ generated.recipe = EmptyDict)]

\* PlannerAgent.suggest_recipe of the agent whose llm_client is self, on the
\* user's items: the recipe returned, the recipe the backend produced,
\* whether the backend was called, and whether the recipe was put in
\* self.recipe_cache (the returns before "Cache the recipe" leave it out)
PlannerAgent_suggest_recipe(self, items, preferences, servings, out) ==
    IF items = <<>>
    THEN [recipe |-> NoIngredientsAvailable(servings), produced |-> NoneDict, invoked |-> FALSE,
          cached |-> FALSE]
    ELSE IF _build_recipe_prompt(items, preferences, servings).raised
    THEN [recipe |-> ErrorRecipe(s_CannotGenerate, servings), produced |-> NoneDict,
          invoked |-> FALSE, cached |-> FALSE]
    ELSE SuggestGenerated(
            LLMClient_generate_recipe(self, _build_recipe_prompt(items, preferences, servings).prompt, out),
            items, preferences, servings)

\* suggest_recipe of the agent PlannerAgent(db_helper) builds, whose client is
\* LLMClient()
suggest_recipe(items, preferences, servings, out) ==
    PlannerAgent_suggest_recipe(LLMClient, items, preferences, servings, out)

\* ------------------------------------------------------------------------
\* Recipe requests: check_recipe_request_safety, PlannerAgent.suggest_recipe,
\* LLMClient.generate_recipe and POST /api/meal-plan/generate (app/main.py)
\* Each behaviour serves one call: the planner agent and its LLM client are
\* built anew for every request, and a call leaves nothing to the next.

\* the stores the calls start from; user 2 owns nothing
SuggestStores ==
    {<<Row(<<"t","o","m","a","t","o">>, 2 * Milli, s_units, 1), Row(<<"f","l","o","u","r">>, 1000 * Milli, s_gram, 1)>>,
     <<Row(<<"m","i","l","k">>, 1500 * Milli, <<"m","l">>, 1)>>}

\* preferences of a recipe request
Preferences ==
    {NoneStr, <<"h","u","m","m","u","s">>, <<"I","n","d","i","a","n"," ","c","u","i","s","i","n","e">>, <<"t","i","g","e","r"," ","p","r","a","w","n">>, <<"h","u","m","a","n","e","l","y"," ","r","a","i","s","e","d"," ","c","h","i","c","k","e","n">>,
     <<"p","a","s","t","a">>, <<"h","u","m","a","n"," ","m","e","a","t">>, <<"H","U","M","A","N"," ","M","E","A","T">>, <<"H","u","m","a","n"," "," ","M","e","a","t">>, <<"d","o","g"," ","m","e","a","t"," ","r","e","c","i","p","e">>,
     <<"f","o","o","d"," ","w","i","t","h"," ","b","l","e","a","c","h">>, <<"t","i","g","e","r"," ","p","r","a","w","n"," ","a","n","d"," ","t","i","g","e","r">>}

Cuisines == {NoneStr, <<"I","n","d","i","a","n">>, <<"d","o","g">>}

Servings == {2, 4}

\* bodies of POST /api/meal-plan/generate
MealPlanRequests ==
    {[preferences |-> p, cuisine |-> c, servings |-> 4] : p \in Preferences, c \in Cuisines}

\* prompts handed to generate_recipe by a caller of the client
DirectPrompts ==
    {<<>>, <<"S","u","g","g","e","s","t"," ","a"," ","t","o","m","a","t","o"," ","s","o","u","p"," ","r","e",
      "c","i","p","e">>, <<"T","e","a","\t","w","i","t","h"," "," ","m","i","l","k">>, <<"A"," ","t","o","x","i","c"," ","s","t","e","w">>,
     <<"H","u","m","a","n"," ","s","t","e","w">>, <<"A"," ","b","a","n","n","e","d"," ","s","e","c","r","e","t"," ","i","n","g","r","e","d","i","e",
      "n","t">>}

BackendRecipe(name, ingredient, step) ==
    [name |-> name,
     description |-> <<"A"," ","s","i","m","p","l","e"," ","d","i","s","h">>,
     servings |-> 2,
     ingredients |-> <<[name |-> ingredient, quantity |-> 1500, unit |-> s_units]>>,
     instructions |-> <<<<"W","a","s","h"," ","a","n","d"," ","c","h","o","p">>, step>>]

\* what the backend can hand back
BackendOutcomes ==
    {[kind |-> "mock"],
     [kind |-> "json", recipe |-> BackendRecipe(<<"T","o","m","a","t","o"," ","S","o","u","p">>, <<"t","o","m","a","t","o">>, <<"S","i","m","m","e","r"," ","a","n","d"," ","s","e","r","v","e">>)],
     [kind |-> "json", recipe |-> BackendRecipe(<<"K","i","l","l"," ","B","i","l","l"," ","C","a","k","e">>, <<"f","l","o","u","r">>, <<"B","a","k","e"," ","a","n","d"," ","s","e","r","v","e">>)],
     [kind |-> "json", recipe |-> BackendRecipe(<<"T","o","m","a","t","o"," ","S","a","l","a","d">>, <<"t","o","m","a","t","o">>, <<"A","T","T","A","C","K"," ","i","t"," ","w","i","t","h"," ","a"," ","f","o","r","k">>)],
     [kind |-> "json", recipe |-> BackendRecipe(<<"S","t","e","w">>, <<"H","u","m","a","n"," ","f","l","e","s","h">>, <<"S","i","m","m","e","r"," ","a","n","d"," ","s","e","r","v","e">>)],
     [kind |-> "json", recipe |-> BackendRecipe(<<"R","o","a","s","t">>, <<"h","u","m","a","n","e","l","y"," ","r","a","i","s","e","d"," ","c","h","i","c","k","e","n">>, <<"R","o","a","s","t"," ","a","n","d"," ","s","e","r","v","e">>)],
     [kind |-> "json", recipe |-> BackendRecipe(<<"C","h","a","r","m","i","n","g"," ","P","i","n","e","a","p","p","l","e"," ","P","i","e">>, <<"p","i","n","e","a","p","p","l","e">>, <<"S","k","i","l","l","f","u","l","l","y"," ","s","l","i","c","e"," ","a","n","d"," ","b","a","k",
      "e">>)],
     [kind |-> "json", recipe |-> BackendRecipe(NoneStr, <<"t","o","m","a","t","o">>, <<"S","i","m","m","e","r"," ","a","n","d"," ","s","e","r","v","e">>)]}

NoSuggest ==
    [endpoint |-> "none", user |-> 0, preferences |-> NoneStr, cuisine |-> NoneStr,
     prompt |-> NoneStr, status |-> 0, safe |-> TRUE, reason |-> <<>>,
     recipe |-> NoneDict, text |-> <<>>, invoked |-> FALSE, produced |-> NoneDict,
     raised |-> FALSE]

SuggestInit ==
    /\ inventory \in SuggestStores
    /\ shopping = <<>>
    /\ pc = "idle"
    /\ state = BlankState
    /\ req = NoReq
    /\ trace = <<>>
    /\ nreq = 0
    /\ procs = NoProcs
    /\ reply = NoSuggest

\* the one call of the behaviour is made and answered
Answer(r) ==
    /\ nreq = 0
    /\ nreq' = 1
    /\ reply' = r
    /\ UNCHANGED <<inventory, shopping, pc, state, req, trace, procs>>

check_recipe_request_safety(request_text) ==
    Answer([NoSuggest EXCEPT !.endpoint = "check_recipe_request_safety",
                             !.preferences = request_text,
                             !.safe = is_safe(request_text).safe,
                             !.reason = is_safe(request_text).reason])

\* PlannerAgent(db_helper).suggest_recipe(preferences, servings)
SuggestRecipe(u, preferences, servings) ==
    \E out \in BackendOutcomes :
        LET s == suggest_recipe(db_get_all_inventory(inventory, u), preferences, servings, out)
        IN  Answer([NoSuggest EXCEPT !.endpoint = "suggest_recipe",
                                     !.user = u,
                                     !.preferences = preferences,
                                     !.status = 200,
                                     !.recipe = s.recipe,
                                     !.invoked = s.invoked,
                                     !.produced = s.produced])

\* LLMClient().generate_recipe(prompt)
GenerateRecipe(prompt) ==
    \E out \in BackendOutcomes :
        LET g == generate_recipe(prompt, out)
        IN  Answer([NoSuggest EXCEPT !.endpoint = "generate_recipe",
                                     !.prompt = prompt,
                                     !.status = IF g.raised THEN 500 ELSE 200,
                                     !.recipe = g.recipe,
                                     !.invoked = g.invoked,
                                     !.produced = g.produced,
                                     !.raised = g.raised])

\* "quantity unit of name" of the ingredients, joined by ", "
RECURSIVE IngredientsList(_)
IngredientsList(ingredients) ==
    IF ingredients = <<>> THEN <<>>
    ELSE FloatStr(ingredients[1].quantity) \o <<" ">> \o ingredients[1].unit \o <<" ","o","f"," ">>
         \o ingredients[1].name
         \o (IF Len(ingredients) = 1 THEN <<>> ELSE <<","," ">> \o IngredientsList(Tail(ingredients)))

\* the response_text planner_node makes of the recipe
RecipeText(recipe) ==
    <<"I"," ","s","u","g","g","e","s","t"," ","m","a","k","i","n","g"," ">> \o recipe.name \o <<"."," ">> \o recipe.description \o <<" ">>
    \o <<"I","t"," ","s","e","r","v","e","s"," ">> \o NumStr(recipe.servings) \o <<" ","p","e","o","p","l","e","."," ">>
    \o <<"Y","o","u","'","l","l"," ","n","e","e","d",":"," ">> \o IngredientsList(recipe.ingredients) \o <<".">>

s_TryDifferent ==
    <<"W","e"," ","c","a","n","n","o","t"," ","g","e","n","e","r","a","t","e"," ","t","h","i","s"," ",
      "t","y","p","e"," ","o","f"," ","c","o","n","t","e","n","t","."," ","P","l","e","a","s","e"," ",
      "t","r","y"," ","a"," ","d","i","f","f","e","r","e","n","t"," ","r","e","c","i","p","e"," ","r",
      "e","q","u","e","s","t",".">>

\* the preferences string generate_meal_plan hands to the workflow
PreferencesStr(body) ==
    IF Truthy(body.preferences) THEN Strip(body.preferences)
    ELSE IF Truthy(body.cuisine) THEN Strip(body.cuisine \o <<" ","c","u","i","s","i","n","e">>)
    ELSE <<>>

\* generate_meal_plan on the user's items, with the planner node of the
\* workflow it invokes: [status, text, recipe, invoked, produced]
generate_meal_plan(items, body, out) ==
    IF \/ Truthy(body.preferences) /\ ~is_safe(body.preferences).safe
       \/ Truthy(body.cuisine) /\ ~is_safe(body.cuisine).safe
    THEN [status |-> 400, text |-> s_TryDifferent, recipe |-> NoneDict,
          invoked |-> FALSE, produced |-> NoneDict]
    ELSE IF items = <<>>
    THEN [status |-> 200,
          text |-> <<"Y","o","u","r"," ","i","n","v","e","n","t","o","r","y"," ","i","s"," ","e","m","p","t","y",".",
      " ","P","l","e","a","s","e"," ","a","d","d"," ","s","o","m","e"," ","i","n","g","r","e","d","i",
      "e","n","t","s"," ","f","i","r","s","t",".">>,
          recipe |-> [name |-> <<"N","o"," ","i","n","g","r","e","d","i","e","n","t","s"," ","a","v","a","i","l","a","b","l","e">>,
                      description |-> <<"P","l","e","a","s","e"," ","a","d","d"," ","s","o","m","e"," ","i","n","g","r","e","d","i","e",
      "n","t","s"," ","t","o"," ","y","o","u","r"," ","i","n","v","e","n","t","o","r","y"," ","f","i",
      "r","s","t",".">>,
                      ingredients |-> <<>>,
                      instructions |-> <<>>],
          invoked |-> FALSE, produced |-> NoneDict]
    ELSE LET s == suggest_recipe(items, PreferencesStr(body), body.servings, out)
         IN  [status |-> 200, text |-> RecipeText(s.recipe), recipe |-> s.recipe,
              invoked |-> s.invoked, produced |-> s.produced]

\* POST /api/meal-plan/generate
GenerateMealPlan(u, body) ==
    \E out \in BackendOutcomes :
        LET r == generate_meal_plan(db_get_all_inventory(inventory, u), body, out)
        IN  Answer([NoSuggest EXCEPT !.endpoint = "generate_meal_plan",
                                     !.user = u,
                                     !.preferences = body.preferences,
                                     !.cuisine = body.cuisine,
                                     !.status = r.status,
                                     !.recipe = r.recipe,
                                     !.text = r.text,
                                     !.invoked = r.invoked,
                                     !.produced = r.produced])

SuggestNext ==
    \/ \E request_text \in Preferences : check_recipe_request_safety(request_text)
    \/ \E u \in Users, preferences \in Preferences, servings \in Servings :
          SuggestRecipe(u, preferences, servings)
    \/ \E prompt \in DirectPrompts : GenerateRecipe(prompt)
    \/ \E u \in Users, body \in MealPlanRequests : GenerateMealPlan(u, body)

SuggestSpec == SuggestInit /\ [][SuggestNext]_vars

\* ------------------------------------------------------------------------
\* A planning session: one recipe is suggested, by PlannerAgent.suggest_recipe
\* of an agent that lives on or by a recipe request run through the workflow,
\* and then a recipe is applied. procs holds the client's guardrails_enabled
\* and the recipe cache that the agent or the workflow state carries from the
\* suggestion to the application.

\* what the backend can hand back: the API call raises, the reply is no JSON,
\* a recipe, the JSON object {}, a recipe whose name is null, a recipe whose
\* ingredient holds no quantity
PlanOutcomes ==
    {[kind |-> "error"],
     [kind |-> "text"],
     [kind |-> "json", recipe |-> BackendRecipe(<<"T","o","m","a","t","o"," ","S","o","u","p">>, <<"t","o","m","a","t","o">>, <<"S","i","m","m","e","r"," ","a","n","d"," ","s","e","r","v","e">>)],
     [kind |-> "json", recipe |-> EmptyDict],
     [kind |-> "json", recipe |-> BackendRecipe(NoneStr, <<"t","o","m","a","t","o">>, <<"S","i","m","m","e","r"," ","a","n","d"," ","s","e","r","v","e">>)],
     [kind |-> "json",
      recipe |-> [BackendRecipe(<<"T","o","m","a","t","o"," ","S","o","u","p">>, <<"t","o","m","a","t","o">>, <<"S","i","m","m","e","r"," ","a","n","d"," ","s","e","r","v","e">>) EXCEPT
                    !.ingredients = <<[name |-> <<"t","o","m","a","t","o">>, quantity |-> NoneNum, unit |-> s_units]>>]]}

PlanPreferences == {<<>>, <<"p","a","s","t","a">>}

\* no call of the session has returned yet
NoPlan ==
    [call |-> "none", user |-> 0, out |-> NoneDict, items |-> <<>>,
     preferences |-> <<>>, servings |-> 0, recipe |-> NoneDict, invoked |-> FALSE,
     recipe_name |-> NoneStr, result |-> NoneDict, before |-> <<>>]

PlanInit ==
    /\ inventory \in SuggestStores
    /\ shopping = <<>>
    /\ pc = "idle"
    /\ state = BlankState
    /\ req = NoReq
    /\ trace = <<>>
    /\ nreq = 0
    /\ procs \in {[guardrails_enabled |-> g, recipe_cache |-> <<>>] : g \in BOOLEAN}
    /\ reply = NoPlan

\* recipe_name in recipe_cache, recipe_cache[recipe_name]
InCache(recipe_cache, recipe_name) == \E i \in DOMAIN recipe_cache : recipe_cache[i].key = recipe_name

CacheGet(recipe_cache, recipe_name) ==
    recipe_cache[CHOOSE i \in DOMAIN recipe_cache : recipe_cache[i].key = recipe_name].item

\* the recipe planner_node makes up for an empty inventory
NoIngredientsNode ==
    [name |-> <<"N","o"," ","i","n","g","r","e","d","i","e","n","t","s"," ","a","v","a","i","l","a","b","l","e">>,
     description |-> <<"P","l","e","a","s","e"," ","a","d","d"," ","s","o","m","e"," ","i","n","g","r","e","d","i","e",
      "n","t","s"," ","t","o"," ","y","o","u","r"," ","i","n","v","e","n","t","o","r","y"," ","f","i",
      "r","s","t",".">>,
     ingredients |-> <<>>,
     instructions |-> <<>>]

\* what planner_node reads of a recipe: ing['quantity'] of an ingredient that
\* holds none raises KeyError
SuggestOutcome(recipe) ==
    [kind |-> "recipe", name |-> recipe.name,
     wellformed |-> \A i \in DOMAIN recipe.ingredients : recipe.ingredients[i].quantity # NoneNum]

\* the initial_state of POST /api/meal-plan/generate
MealPlanState == InitialState(<<"s","u","g","g","e","s","t"," ","a"," ","r","e","c","i","p","e">>, "recipe", NoneStr, NoneNum, NoneStr)

\* planner_agent.suggest_recipe(...) on an agent that stays: the recipe is
\* in self.recipe_cache afterwards only when the call reached "Cache the recipe"
AgentSuggest(u, preferences, servings) ==
    /\ pc = "idle"
    /\ \E out \in PlanOutcomes :
        \E s \in {PlannerAgent_suggest_recipe(procs, db_get_all_inventory(inventory, u),
                                              preferences, servings, out)} :
            /\ procs' = [procs EXCEPT !.recipe_cache =
                            IF s.cached THEN DictSet(@, s.recipe.name, s.recipe) ELSE @]
            /\ reply' = [NoPlan EXCEPT !.call = "suggest_recipe", !.user = u, !.out = out,
                                       !.items = db_get_all_inventory(inventory, u),
                                       !.preferences = preferences, !.servings = servings,
                                       !.recipe = s.recipe, !.invoked = s.invoked]
    /\ pc' = "suggested"
    /\ UNCHANGED <<inventory, shopping, state, req, trace, nreq>>

\* the recipe_cache of the state planner_node returns: the recipe of
\* suggest_recipe is stored under its name, by the agent or by the node
planner_node_cache(recipe_cache, items, recipe) ==
    IF items = <<>> THEN recipe_cache ELSE DictSet(recipe_cache, recipe.name, recipe)

\* graph_app.invoke(initial_state) of a recipe request: voice_router, then
\* planner_node on a state whose recipe_cache is {}
WorkflowSuggest(u, preferences, servings) ==
    /\ pc = "idle"
    /\ route_command(voice_router_node(MealPlanState)) = "planner"
    /\ \E out \in PlanOutcomes :
        \E s \in {PlannerAgent_suggest_recipe(procs, db_get_all_inventory(inventory, u),
                                              preferences, servings, out)} :
            /\ state' = planner_node(voice_router_node(MealPlanState), inventory, u,
                                     SuggestOutcome(s.recipe))
            /\ procs' = [procs EXCEPT !.recipe_cache =
                            planner_node_cache(<<>>, db_get_all_inventory(inventory, u), s.recipe)]
            /\ reply' = [NoPlan EXCEPT !.call = "planner_node", !.user = u, !.out = out,
                                       !.items = db_get_all_inventory(inventory, u),
                                       !.preferences = preferences, !.servings = servings,
                                       !.recipe = IF db_get_all_inventory(inventory, u) = <<>>
                                                  THEN NoIngredientsNode ELSE s.recipe,
                                       !.invoked = db_get_all_inventory(inventory, u) # <<>>
                                                   /\ s.invoked]
    /\ pc' = "suggested"
    /\ UNCHANGED <<inventory, shopping, req, trace, nreq>>

\* the loop of apply_recipe over the ingredients: reduce_quantity of each
\* name by its scaled quantity; what it raises is logged and passed over
RECURSIVE RemoveIngredients(_, _, _, _, _)
RemoveIngredients(inv, u, ingredients, servings, recipe_servings) ==
    IF ingredients = <<>> THEN inv
    ELSE RemoveIngredients(
            db_reduce_quantity(inv, u, ingredients[1].name,
                IF servings # NoneNum /\ servings # 0 /\ recipe_servings # 0
                THEN (QuantityOrZero(ingredients[1]) * servings) \div recipe_servings
                ELSE QuantityOrZero(ingredients[1])).inv,
            u, Tail(ingredients), servings, recipe_servings)

\* PlannerAgent.apply_recipe: [success, found, inv]
apply_recipe(recipe_cache, inv, u, recipe_name, servings) ==
    IF ~InCache(recipe_cache, recipe_name)
    THEN [success |-> FALSE, found |-> FALSE, inv |-> inv]
    ELSE [success |-> TRUE, found |-> TRUE,
          inv |-> RemoveIngredients(inv, u, CacheGet(recipe_cache, recipe_name).ingredients,
                                    servings, CacheGet(recipe_cache, recipe_name).servings)]

\* recipe_app_node on the workflow state: [state, inv]
recipe_app_node(st, recipe_cache, inv, u, recipe_name, servings) ==
    IF ~Truthy(recipe_name)
    THEN [state |-> [st EXCEPT !.error = "Recipe name is required", !.success = FALSE],
          inv |-> inv]
    ELSE IF ~InCache(recipe_cache, recipe_name)
    THEN [state |-> [st EXCEPT !.error = "Recipe not found. Please generate a recipe first.",
                                  !.success = FALSE,
                                  !.response_text = "Recipe not found. Please generate a recipe first."],
          inv |-> inv]
    ELSE [state |-> [st EXCEPT
                        !.inventory = db_get_all_inventory(
                            apply_recipe(recipe_cache, inv, u, recipe_name, servings).inv, u),
                        !.response_text = "Applied recipe",
                        !.response_action = "recipe_applied",
                        !.success = TRUE],
          inv |-> apply_recipe(recipe_cache, inv, u, recipe_name, servings).inv]

\* the names a client asks to apply: that of the recipe it was handed, or none
ApplyNames == IF reply.recipe = NoneDict THEN {} ELSE {reply.recipe.name, NoneStr}

\* planner_agent.apply_recipe(recipe_name) on the agent that suggested
AgentApply(recipe_name) ==
    /\ pc = "suggested"
    /\ reply.call = "suggest_recipe"
    /\ Truthy(recipe_name)
    /\ \E r \in {apply_recipe(procs.recipe_cache, inventory, reply.user, recipe_name, NoneNum)} :
        /\ inventory' = r.inv
        /\ reply' = [reply EXCEPT !.call = "apply_recipe", !.recipe_name = recipe_name,
                                  !.result = [success |-> r.success, found |-> r.found],
                                  !.before = inventory]
    /\ pc' = "applied"
    /\ UNCHANGED <<shopping, state, req, trace, nreq, procs>>

\* recipe_app_node on the state the recipe request left, with the
\* recipe_name the client asks for
WorkflowApply(recipe_name) ==
    /\ pc = "suggested"
    /\ reply.call = "planner_node"
    /\ \E r \in {recipe_app_node(state, procs.recipe_cache, inventory, reply.user, recipe_name,
                                 reply.servings)} :
        /\ inventory' = r.inv
        /\ state' = r.state
        /\ reply' = [reply EXCEPT !.call = "recipe_app_node", !.recipe_name = recipe_name,
                                  !.result = [success |-> r.state.success,
                                              found |-> InCache(procs.recipe_cache, recipe_name)],
                                  !.before = inventory]
    /\ pc' = "applied"
    /\ UNCHANGED <<shopping, req, trace, nreq, procs>>

PlanNext ==
    \/ \E u \in Users, preferences \in PlanPreferences, servings \in Servings :
           AgentSuggest(u, preferences, servings)
    \/ \E u \in Users, preferences \in PlanPreferences, servings \in Servings :
           WorkflowSuggest(u, preferences, servings)
    \/ \E recipe_name \in ApplyNames : AgentApply(recipe_name)
    \/ \E recipe_name \in ApplyNames : WorkflowApply(recipe_name)

PlanSpec == PlanInit /\ [][PlanNext]_vars

\* ------------------------------------------------------------------------
\* A shopping agent that lives on: update_threshold sets the threshold of an
\* item, generate_shopping_list reads the thresholds set so far. procs holds
\* the agent's thresholds, reply the last list it generated.

\* self.thresholds.get(name, DEFAULT_THRESHOLD)
ThresholdOf(thresholds, name) ==
    IF \E i \in DOMAIN thresholds : thresholds[i].key = name
    THEN thresholds[CHOOSE i \in DOMAIN thresholds : thresholds[i].key = name].item
    ELSE DEFAULT_THRESHOLD

\* variant of ShoppingAgent_generate_shopping_list: an item is listed only
\* when its quantity is below its threshold
ShoppingAgent_generate_shopping_list_Below(self, inv, u) ==
    LET items   == db_get_all_inventory(inv, u)
        low     == SelectSeq(items, LAMBDA item : item.quantity < ThresholdOf(self.thresholds, item.name))
        entries == [i \in DOMAIN low |->
                      [name |-> low[i].name,
                       current_quantity |-> low[i].quantity,
                       unit |-> low[i].unit,
                       threshold |-> ThresholdOf(self.thresholds, low[i].name),
                       suggested_quantity |->
                           IF ThresholdOf(self.thresholds, low[i].name) * 2 > 3 * Milli
                           THEN ThresholdOf(self.thresholds, low[i].name) * 2 ELSE 3 * Milli,
                       priority |-> IF low[i].quantity = 0 THEN "high" ELSE "medium"]]
    IN  SortSeq(entries,
                LAMBDA a, b : \/ (a.priority # "medium" /\ b.priority = "medium")
                              \/ (a.priority = b.priority /\ StrLess(a.name, b.name)))

\* generate_shopping_list of the agent self, whose thresholds some calls of
\* update_threshold have set
ShoppingAgent_generate_shopping_list(self, inv, u) ==
    LET items   == db_get_all_inventory(inv, u)
        low     == SelectSeq(items, LAMBDA item : item.quantity <= ThresholdOf(self.thresholds, item.name))
        entries == [i \in DOMAIN low |->
                      [name |-> low[i].name,
                       current_quantity |-> low[i].quantity,
                       unit |-> low[i].unit,
                       threshold |-> ThresholdOf(self.thresholds, low[i].name),
                       suggested_quantity |->
                           IF ThresholdOf(self.thresholds, low[i].name) * 2 > 3 * Milli
                           THEN ThresholdOf(self.thresholds, low[i].name) * 2 ELSE 3 * Milli,
                       priority |-> IF low[i].quantity = 0 THEN "high" ELSE "medium"]]
    IN  SortSeq(entries,
                LAMBDA a, b : \/ (a.priority # "medium" /\ b.priority = "medium")
                              \/ (a.priority = b.priority /\ StrLess(a.name, b.name)))

\* the inventories the agent works on; no two rows of an owner share a name
ListStores ==
    {<<Row(<<"m","i","l","k">>, 0, <<"l","i","t","e","r">>, 1), Row(<<"e","g","g","s">>, 5 * Milli, s_units, 1)>>,
     <<Row(<<"m","i","l","k">>, 0, <<"l","i","t","e","r">>, 1), Row(<<"e","g","g","s">>, 0, s_units, 1),
       Row(<<"b","u","t","t","e","r">>, 1 * Milli, s_units, 1), Row(<<"A","p","p","l","e","s">>, 500, <<"k","g">>, 1),
       Row(<<"r","i","c","e">>, 2 * Milli, <<"k","g">>, 1)>>,
     <<Row(<<"e","g","g","s">>, 3 * Milli, s_units, 1), Row(<<"m","i","l","k">>, 1 * Milli, <<"l","i","t","e","r">>, 2),
       Row(<<"f","l","o","u","r">>, 0, s_gram, 2)>>}

ThresholdNames == {<<"m","i","l","k">>, <<"e","g","g","s">>}

ThresholdValues == {0, 500, 5 * Milli}

NoList == [call |-> "none", user |-> 0, thresholds |-> <<>>, list |-> <<>>]

ListInit ==
    /\ inventory \in ListStores
    /\ shopping = <<>>
    /\ pc = "idle"
    /\ state = BlankState
    /\ req = NoReq
    /\ trace = <<>>
    /\ nreq = 0
    /\ procs = [thresholds |-> <<>>]
    /\ reply = NoList

update_threshold(item_name, threshold) ==
    /\ procs' = [procs EXCEPT !.thresholds = DictSet(@, item_name, threshold)]
    /\ UNCHANGED <<inventory, shopping, pc, state, req, trace, nreq, reply>>

GenerateShoppingList(u) ==
    /\ reply' = [call |-> "generate_shopping_list", user |-> u,
                 thresholds |-> procs.thresholds,
                 list |-> ShoppingAgent_generate_shopping_list(procs, inventory, u)]
    /\ UNCHANGED <<inventory, shopping, pc, state, req, trace, nreq, procs>>

ListNext ==
    \/ \E item_name \in ThresholdNames, threshold \in ThresholdValues :
           update_threshold(item_name, threshold)
    \/ \E u \in Users : GenerateShoppingList(u)

ListSpec == ListInit /\ [][ListNext]_vars

\* ------------------------------------------------------------------------
\* The router on its own: voice_router_node and route_command are applied to
\* one command; state holds the state the router returns, reply the command
\* and the node route_command names.

Verbs == ADD_SYNONYMS \cup REMOVE_SYNONYMS \cup UPDATE_SYNONYMS

\* what follows the verb of a command
Tails ==
    {<<" ","2"," ","c","u","p","s"," ","r","i","c","e">>, <<" ","r","i","c","e">>, <<" ","r","i","c","e"," ","t","o"," ","i","n","v","e","n","t","o","r","y">>, <<" ","2"," ","c","u","p","s"," ","r","i","c","e"," ","t","o"," ","m","y"," ","s","t","o","c","k">>,
     <<" ","a"," ","t","o","m","a","t","o">>, <<" ","2"," ","c","u","p","s"," ","r","i","c","e"," ","i","n"," ","t","h","e"," ","p","a","n","t",
      "r","y">>}

\* commands that start with none of the verbs
OtherCommands ==
    {<<>>, <<"h","e","l","l","o"," ","t","h","e","r","e">>, <<"x","y","z">>, <<"w","h","a","t"," ","d","o"," ","I"," ","h","a","v","e">>, <<"s","h","o","w"," ","m","y"," ","i","n","v","e","n","t","o","r","y">>,
     <<"s","u","g","g","e","s","t"," ","a"," ","r","e","c","i","p","e">>, <<"s","h","o","p","p","i","n","g"," ","l","i","s","t">>, <<"p","l","e","a","s","e"," ","a","d","d"," ","2"," ","c","u","p","s"," ","r","i","c","e">>,
     <<"a","d","d"," ","r","i","c","e"," ","a","n","d"," ","c","o","o","k"," ","i","t">>, <<"d","e","l","e","t","e"," ","t","h","e"," ","s","h","o","p","p","i","n","g"," ","l","i","s","t">>, <<"r","e","m","o","v","e"," ","e","g","g","s",","," ","t","h","e","n"," ","b","u","y"," ","m","i",
      "l","k">>,
     <<"s","e","t"," ","3"," ","e","g","g","s">>, <<"2"," ","c","u","p","s"," ","r","i","c","e">>, <<"A","d","d"," ","T","w","o"," ","C","u","p","s"," ","R","i","c","e","!">>}

RouterCommands == {v \o t : v \in Verbs, t \in Tails} \cup OtherCommands

NoRoute == [call |-> "none", command |-> <<>>, tokens |-> <<>>, node |-> "none"]

RouterInit ==
    /\ inventory = <<>>
    /\ shopping = <<>>
    /\ pc = "idle"
    /\ state = BlankState
    /\ req = NoReq
    /\ trace = <<>>
    /\ nreq = 0
    /\ procs = NoProcs
    /\ reply = NoRoute

\* voice_router_node on the state of a command, then route_command
RouteCommand(command) ==
    /\ nreq = 0
    /\ \E out \in {voice_router_node(InitialState(command, "None", NoneStr, NoneNum, NoneStr))} :
        /\ state' = out
        /\ reply' = [call |-> "voice_router_node", command |-> command,
                     tokens |-> _tokenize(Lower(command)), node |-> route_command(out)]
    /\ nreq' = 1
    /\ UNCHANGED <<inventory, shopping, pc, req, trace, procs>>

RouterNext == \E command \in RouterCommands : RouteCommand(command)

RouterSpec == RouterInit /\ [][RouterNext]_vars

\* ------------------------------------------------------------------------
\* The unit converter on its own: convert_to_unit is applied to one quantity
\* and two unit strings; reply holds the arguments and the result.

ConvertQuantities == {0, 1 * Milli, 2 * Milli}

\* spellings of the three categories, and strings the factor table lacks
ConvertUnits ==
    {<<"k","g">>, <<"K","G">>, <<"g">>, <<" ","G","r","a","m","s">>, <<"m","l">>, <<"l","i","t","e","r">>, <<"u","n","i","t","s">>, <<"p","i","e","c","e","s">>,
     <<"p","i","n","c","h">>, <<>>}

NoConvert ==
    [call |-> "none", quantity |-> 0, from_unit |-> <<>>, to_unit |-> <<>>, result |-> NoneNum]

UnitInit ==
    /\ inventory = <<>>
    /\ shopping = <<>>
    /\ pc = "idle"
    /\ state = BlankState
    /\ req = NoReq
    /\ trace = <<>>
    /\ nreq = 0
    /\ procs = NoProcs
    /\ reply = NoConvert

\* UnitConverter().convert_to_unit(quantity, from_unit, to_unit)
ConvertToUnit(quantity, from_unit, to_unit) ==
    /\ nreq = 0
    /\ nreq' = 1
    /\ reply' = [call |-> "convert_to_unit", quantity |-> quantity, from_unit |-> from_unit,
                 to_unit |-> to_unit, result |-> convert_to_unit(quantity, from_unit, to_unit)]
    /\ UNCHANGED <<inventory, shopping, pc, state, req, trace, procs>>

UnitNext ==
    \E quantity \in ConvertQuantities, from_unit \in ConvertUnits, to_unit \in ConvertUnits :
        ConvertToUnit(quantity, from_unit, to_unit)

UnitSpec == UnitInit /\ [][UnitNext]_vars

\* ------------------------------------------------------------------------
\* The request guardrail on its own: generate_recipe of a client whose
\* guardrails are on is called with one prompt; reply holds the prompt, what
\* validate_prompt said of it in the recipe context, and the recipe returned.

\* the terms of the two lists of restricted food items
RestrictedTerms == Range(ILLEGAL_FOOD_ITEMS) \cup Range(RESTRICTED_FOOD_ITEMS)

PromptHeads == {<<>>, <<"A"," ">>, <<"S","o","u","p"," ","o","f"," ">>}

PromptTails == {<<>>, <<" ","s","t","e","w">>, <<"!">>}

GuardPrompts ==
    {h \o term \o t : h \in PromptHeads, term \in RestrictedTerms, t \in PromptTails}
    \cup {<<"T","o","m","a","t","o"," ","s","o","u","p">>, <<"h","u","m","a","n","s"," ","o","f"," ","t","h","e"," ","k","i","t","c","h","e","n">>, <<"H","U","M","A","N"," ","s","t","e","w">>, <<"h","u","m","m","u","s">>}

NoGuard ==
    [call |-> "none", prompt |-> <<>>, verdict |-> [ok |-> TRUE, reason |-> NoneStr],
     recipe |-> NoneDict, invoked |-> FALSE]

GuardInit ==
    /\ inventory = <<>>
    /\ shopping = <<>>
    /\ pc = "idle"
    /\ state = BlankState
    /\ req = NoReq
    /\ trace = <<>>
    /\ nreq = 0
    /\ procs = NoProcs
    /\ reply = NoGuard

\* LLMClient().generate_recipe(prompt), guardrails on
GuardedGenerate(prompt) ==
    /\ nreq = 0
    /\ nreq' = 1
    /\ \E out \in {[kind |-> "mock"]} :
        \E g \in {LLMClient_generate_recipe([guardrails_enabled |-> TRUE], prompt, out)} :
            reply' = [call |-> "generate_recipe", prompt |-> prompt,
                      verdict |-> validate_prompt(sanitize_prompt(prompt), "recipe"),
                      recipe |-> g.recipe, invoked |-> g.invoked]
    /\ UNCHANGED <<inventory, shopping, pc, state, req, trace, procs>>

GuardNext == \E prompt \in GuardPrompts : GuardedGenerate(prompt)

GuardSpec == GuardInit /\ [][GuardNext]_vars

\* ------------------------------------------------------------------------
\* Vocabulary of the properties

TerminalNodes == {"inventory", "planner", "shopping", "inventory_list", "error"}

HandlerNodes == {"inventory", "planner", "shopping", "inventory_list"}

InsufficientMsg == "exists but you only have less left"

\* the dimensional category of a unit token
UnitCategory(unit) ==
    IF Strip(Lower(unit)) \in volume_units THEN "Volume"
    ELSE IF Strip(Lower(unit)) \in weight_units THEN "Weight"
    ELSE IF Strip(Lower(unit)) \in factor_count THEN "Count"
    ELSE "Unrecognized"

\* quantity of unit from_unit expressed in to_unit, by the factor table
InUnit(quantity, from_unit, to_unit) ==
    (quantity * CONVERSION_TO_BASE(Strip(Lower(from_unit)))[1]
              * CONVERSION_TO_BASE(Strip(Lower(to_unit)))[2])
    \div (CONVERSION_TO_BASE(Strip(Lower(from_unit)))[2]
          * CONVERSION_TO_BASE(Strip(Lower(to_unit)))[1])

\* the item the command in state addresses, as the agent finds it in the store
Matched == db_find_item_fuzzy(inventory, req.user, Strip(Lower(state.item_name)))

\* the row of inv that holds the item named name for owner u, as a set
RowsOf(inv, u, name) ==
    {i \in DOMAIN inv : inv[i].user_id = u /\ inv[i].name = name}

\* the inventory node is about to run an add on an item that exists
AddOnExisting ==
    /\ pc = "inventory"
    /\ state.command_type = "add"
    /\ Truthy(state.item_name)
    /\ Matched.kind = "item"

\* the quantity the add branch hands to the agent ("quantity or 1.0")
AddQuantity == IF state.quantity = NoneNum \/ state.quantity = 0 THEN Milli ELSE state.quantity

\* the inventory node is about to run a remove of a given quantity on an item
\* that exists
RemoveOnExisting ==
    /\ pc = "inventory"
    /\ state.command_type = "remove"
    /\ Truthy(state.item_name)
    /\ Matched.kind = "item"
    /\ state.quantity # NoneNum

\* the remove names no unit, or one of the category of the stored unit
RemoveComparable ==
    \/ state.unit = NoneStr
    \/ UnitCategory(state.unit) = UnitCategory(Matched.unit)

\* the quantity a comparable remove asks for, in the stored unit
RemoveQuantity ==
    IF state.unit = NoneStr THEN state.quantity
    ELSE InUnit(state.quantity, state.unit, Matched.unit)

\* the remove asks for more than is on hand
RemoveTooMuch ==
    /\ RemoveOnExisting
    /\ RemoveComparable
    /\ Matched.quantity < RemoveQuantity

ZeroRows(inv) == {r \in Range(inv) : r.quantity = 0}

\* ------------------------------------------------------------------------
\* C1: in every workflow invocation voice_router runs first, then exactly one
\* of the terminal nodes runs, and then the run ends; no node runs twice and
\* every invocation terminates.
C1_RunShape ==
    /\ pc = "idle" => trace = <<>>
    /\ pc = "voice_router" => trace = <<>>
    /\ pc \in TerminalNodes => trace = <<"voice_router">>
    /\ pc = "END" => /\ Len(trace) = 2
                     /\ trace[1] = "voice_router"
                     /\ trace[2] \in TerminalNodes
    /\ pc \in {"idle", "voice_router", "END"} \cup TerminalNodes

C1_RouterThenOneTerminalThenEnd ==
    /\ []C1_RunShape
    /\ (pc = "voice_router") ~> (pc = "END")

C1_Witness ==
    /\ pc = "END"
    /\ trace = <<"voice_router", "inventory">>

\* C2 (as stated): the Error node runs in every run in which the classifier
\* finds no intent, and in every run in which a handler node sets the error
\* field.
C2_ErrorNodeAfterHandlerError ==
    pc = "END" =>
        /\ state.command_type = "None" => "error" \in Range(trace)
        /\ state.error # "None" => "error" \in Range(trace)

\* C2 (amended): the Error node runs exactly in the runs in which the
\* classifier finds no intent; a run in which a handler node sets the error
\* field ends after that handler, without the Error node.
C2_ErrorNodeIffUnknown ==
    pc = "END" => ("error" \in Range(trace) <=> state.command_type = "None")

C2_Witness ==
    /\ pc = "END"
    /\ trace[2] \in HandlerNodes
    /\ state.error # "None"

\* C3: when a run ends, response_text, response_action and response_data have
\* all been set by the terminal node, on the success path and on every
\* failure path.
C3_EnvelopeFilled ==
    pc = "END" =>
        /\ state.response_text # ""
        /\ state.response_action # "None"
        /\ state.response_data # NoneDict

\* C4: an inventory command with an empty or missing item name, an update
\* without a quantity, a remove of an item that is not there, or a remove of
\* more than is on hand ends with success = false and a non-empty error.
C4_InvalidCase ==
    /\ pc = "inventory"
    /\ \/ ~Truthy(state.item_name)
       \/ state.command_type = "update" /\ state.quantity = NoneNum
       \/ state.command_type = "remove" /\ Matched.kind # "item"
       \/ RemoveTooMuch

C4_FailureReported ==
    [][C4_InvalidCase => /\ state'.success = FALSE
                         /\ state'.error # "None"]_vars

\* C5: the store holds at most one record per (owner, lower-cased trimmed
\* item name).
C5_OneRecordPerName ==
    \A i, j \in DOMAIN inventory :
        (/\ inventory[i].user_id = inventory[j].user_id
         /\ Strip(Lower(inventory[i].name)) = Strip(Lower(inventory[j].name)))
        => i = j

\* C6: when two requests concurrently add to or remove from the same item, the
\* final quantity is the initial quantity plus every successful add minus
\* every successful remove.
ConcDelta(p) ==
    IF procs.w[p].exc # "none" THEN 0
    ELSE IF procs.w[p].call.method = "add"
    THEN InUnit(procs.w[p].call.quantity, procs.w[p].call.unit, s_gram)
    ELSE 0 - InUnit(procs.w[p].call.quantity, procs.w[p].call.unit, s_gram)

ConcFinal == IF inventory = <<>> THEN 0 ELSE inventory[1].quantity

C6_NoLostUpdate ==
    (\A p \in Workers : procs.w[p].at = "done")
        => ConcFinal = procs.initial + ConcDelta(1) + ConcDelta(2)

\* C7: a remove of more than the on-hand quantity of the matched item fails
\* with the insufficient-quantity error and leaves the store unchanged.
C7_InsufficientLeavesStore ==
    [][RemoveTooMuch
        => /\ inventory' = inventory
           /\ state'.success = FALSE
           /\ state'.error = InsufficientMsg]_vars

C7_Witness ==
    /\ pc = "END"
    /\ state.command_type = "remove"
    /\ state.error = InsufficientMsg
    /\ state.quantity = 2 * Milli
    /\ \E i \in DOMAIN inventory :
          inventory[i] = Row(state.item_name, 1000 * Milli, s_gram, req.user)

\* C8 (as stated): no inventory record with quantity 0 persists in any
\* reachable state of the store.
C8_NoZeroRow == ZeroRows(inventory) = {}

\* C8 (amended): a remove or a meal-plan confirmation never writes a record of
\* quantity 0: when it brings an item's quantity to zero it deletes the record.
C8_RemoveAndConfirmDeleteAtZero ==
    /\ (pc = "inventory" /\ state.command_type = "remove")
          => ZeroRows(inventory_node(state, inventory, req.user).inv)
                \subseteq ZeroRows(inventory)
    /\ pc = "idle"
          => \A u \in Users, ingredients \in ConfirmBodies :
                ZeroRows(confirm_meal_plan(inventory, shopping, u, ingredients).inv)
                    \subseteq ZeroRows(inventory)

C8_Witness ==
    /\ pc = "END"
    /\ state.command_type = "remove"
    /\ state.quantity # NoneNum
    /\ state.success
    /\ state.response_data.kind = "removed"
    /\ RowsOf(inventory, req.user, state.response_data.name) = {}

\* C9: add on an item that exists, with an incoming unit of the same
\* dimensional category as the stored unit, makes the stored quantity the old
\* quantity plus the incoming quantity converted into the stored unit, and
\* keeps the stored unit.
C9_SameCategoryAccumulates ==
    [][(/\ AddOnExisting
        /\ UnitCategory(state.unit) \in {"Volume", "Weight", "Count"}
        /\ UnitCategory(state.unit) = UnitCategory(Matched.unit))
        => /\ state'.success
           /\ Len(inventory') = Len(inventory)
           /\ \A i \in RowsOf(inventory, req.user, Matched.name) :
                 inventory'[i] = [inventory[i] EXCEPT
                    !.quantity = @ + InUnit(AddQuantity, state.unit, Matched.unit)]]_vars

\* add 1 kg then add 500 g leaves one record of 1500 g
C9_Witness ==
    /\ pc = "END"
    /\ state.command_type = "add"
    /\ state.quantity = 500 * Milli
    /\ state.unit = <<"g","r","a","m","s">>
    /\ state.success
    /\ inventory = <<Row(<<"f","l","o","u","r">>, 1500 * Milli, s_gram, req.user)>>

\* C10: add on an item that exists, with an incoming unit of another category
\* than the stored unit or an unrecognized unit, succeeds and makes the stored
\* quantity the old quantity plus the raw incoming number, keeping the unit.
C10_OtherCategoryAddsRaw ==
    [][(/\ AddOnExisting
        /\ state.unit # NoneStr
        /\ UnitCategory(state.unit) # UnitCategory(Matched.unit))
        => /\ state'.success
           /\ Len(inventory') = Len(inventory)
           /\ \A i \in RowsOf(inventory, req.user, Matched.name) :
                 inventory'[i] = [inventory[i] EXCEPT !.quantity = @ + AddQuantity]]_vars

\* the inventory node is about to run an update that names an item, a
\* quantity and a unit
UpdateGiven ==
    /\ pc = "inventory"
    /\ state.command_type = "update"
    /\ Truthy(state.item_name)
    /\ state.quantity # NoneNum
    /\ state.unit # NoneStr

\* the rows of inv that hold, for owner u, an item whose name is name up to
\* letter case
RowsNamed(inv, u, name) ==
    {i \in DOMAIN inv : inv[i].user_id = u /\ Lower(inv[i].name) = Lower(name)}

\* C11: an update that names item, quantity q and unit u leaves the owner's
\* store with exactly one record for the name, holding quantity q and unit u,
\* whether or not the item existed and whatever it held; the records of other
\* names are left alone, and running the same update once more leaves the
\* store as it is.
C11_UpdateOverwritesIdempotently ==
    [][UpdateGiven
        => /\ state'.success
           /\ Cardinality(RowsNamed(inventory', req.user, state.item_name)) = 1
           /\ \A i \in RowsNamed(inventory', req.user, state.item_name) :
                 /\ inventory'[i].quantity = state.quantity
                 /\ inventory'[i].unit = state.unit
           /\ \A i \in DOMAIN inventory :
                 i \notin RowsNamed(inventory, req.user, state.item_name)
                    => inventory'[i] = inventory[i]
           /\ inventory_node(state, inventory', req.user).inv = inventory']_vars

\* update 2 kg flour on a store that holds flour 1000 gram
C11_Witness ==
    /\ pc = "END"
    /\ nreq = 2
    /\ state.command_type = "update"
    /\ state.quantity = 2 * Milli
    /\ state.success
    /\ state.response_data = [kind |-> "item", name |-> <<"f","l","o","u","r">>,
                              quantity |-> 2 * Milli, unit |-> <<"k","g">>]
    /\ inventory = <<Row(<<"f","l","o","u","r">>, 2 * Milli, <<"k","g">>, req.user)>>

\* the inventory item confirm matches ingredient g of owner u to, or NoneDict
ConfirmMatch(inv, u, g) ==
    IF db_find_item_fuzzy(inv, u, Strip(g.name)).kind = "item"
    THEN db_find_item_fuzzy(inv, u, Strip(g.name))
    ELSE CascadeMatch(DictFromList(db_get_all_inventory(inv, u), <<>>), Strip(g.name))

\* ingredient g names a unit of the alias group of the unit of item m
ConfirmCompatible(m, g) ==
    /\ g.unit # NoneStr
    /\ units_match(Strip(Lower(m.unit)), Strip(Lower(g.unit)))

\* the step is a confirm of the single ingredient reply'.body[1]
ConfirmOfOne ==
    /\ reply'.endpoint = "confirm"
    /\ Len(reply'.body) = 1
    /\ reply'.body[1].name # NoneStr
    /\ Strip(reply'.body[1].name) # <<>>

\* the unchecked shopping-list entries of owner u named name (up to case)
Unchecked(shop, u, name) ==
    {i \in DOMAIN shop : /\ shop[i].user_id = u
                         /\ shop[i].checked = 0
                         /\ Lower(shop[i].name) = Lower(name)}

\* C12: for an ingredient that confirm matches to an item with compatible
\* units, needing n against on-hand h: min(n, h) is removed from that item and
\* from no other; the item is deleted and listed as deleted iff h <= n, and is
\* otherwise listed as reduced with new quantity h - n; a shopping-list entry
\* with quantity n - h is added iff h < n.
C12_ConsumeAndSpillShortfall ==
    [][LET g == reply'.body[1]
           u == reply'.user
           m == ConfirmMatch(inventory, u, g)
           n == g.quantity
           h == m.quantity
           gone == [name |-> m.name, old_quantity |-> h, unit |-> m.unit]
           less == [name |-> m.name, old_quantity |-> h, new_quantity |-> h - n,
                    unit |-> m.unit]
           short == [name |-> Strip(g.name), quantity |-> quantity_str(n - h, g.unit)]
       IN  (ConfirmOfOne /\ m.kind = "item" /\ ConfirmCompatible(m, g))
           => /\ reply'.status = 200
              /\ \A r \in Range(inventory) :
                    (r.user_id # u \/ r.name # m.name) => r \in Range(inventory')
              /\ Len(inventory') = Len(inventory) - (IF h <= n THEN 1 ELSE 0)
              /\ IF h <= n
                 THEN /\ RowsOf(inventory', u, m.name) = {}
                      /\ reply'.deleted = <<gone>>
                      /\ reply'.reduced = <<>>
                 ELSE /\ \E i \in RowsOf(inventory', u, m.name) :
                            inventory'[i] = Row(m.name, h - n, m.unit, u)
                      /\ reply'.deleted = <<>>
                      /\ reply'.reduced = <<less>>
              /\ IF h < n
                 THEN /\ reply'.added = <<short>>
                      /\ \E i \in Unchecked(shopping', u, short.name) :
                            shopping'[i].quantity = short.quantity
                 ELSE /\ reply'.added = <<>>
                      /\ shopping' = shopping]_vars

\* tomato 3 units against tomato 2 units: the item is deleted and a tomato
\* entry with shortfall 1 is on the shopping list
C12_Witness ==
    /\ reply.endpoint = "confirm"
    /\ reply.body = <<[name |-> <<"t","o","m","a","t","o">>, quantity |-> 3 * Milli, unit |-> s_units]>>
    /\ reply.deleted = <<[name |-> <<"t","o","m","a","t","o">>, old_quantity |-> 2 * Milli, unit |-> s_units]>>
    /\ reply.added = <<[name |-> <<"t","o","m","a","t","o">>,
                        quantity |-> [num |-> 1 * Milli, unit |-> <<>>]]>>
    /\ RowsOf(inventory, reply.user, <<"t","o","m","a","t","o">>) = {}
    /\ \E i \in Unchecked(shopping, reply.user, <<"t","o","m","a","t","o">>) :
          shopping[i].quantity = [num |-> 1 * Milli, unit |-> <<>>]

\* the step is a confirm whose ingredients all carry a name
ConfirmOfNamed ==
    /\ reply'.endpoint = "confirm"
    /\ \A i \in DOMAIN reply'.body :
          reply'.body[i].name # NoneStr /\ Strip(reply'.body[i].name) # <<>>

\* the shopping-list entry that carries the full required quantity of g
FullEntry(g) == [name |-> Strip(g.name), quantity |-> quantity_str(g.quantity, g.unit)]

\* C13: when confirm matches no ingredient of the request to an inventory
\* item with compatible units (no item matches, or the matched item's unit is
\* incompatible), the full required quantity of every ingredient is added to
\* the shopping list and no inventory record is modified or deleted.
C13_UnmatchedGoesToShoppingList ==
    [][LET b == reply'.body
           u == reply'.user
       IN  (/\ ConfirmOfNamed
            /\ \A i \in DOMAIN b :
                  \/ ConfirmMatch(inventory, u, b[i]).kind # "item"
                  \/ ~ConfirmCompatible(ConfirmMatch(inventory, u, b[i]), b[i]))
           => /\ reply'.status = 200
              /\ inventory' = inventory
              /\ reply'.reduced = <<>>
              /\ reply'.deleted = <<>>
              /\ reply'.added = [i \in DOMAIN b |-> FullEntry(b[i])]
              /\ \A i \in DOMAIN b :
                    \E j \in Unchecked(shopping', u, FullEntry(b[i]).name) :
                        shopping'[j].quantity = FullEntry(b[i]).quantity]_vars

\* flour 1 kg against flour 1000 gram: the units are of different alias
\* groups, the store keeps its flour and "1 kg" of flour is on the list
C13_Witness ==
    /\ reply.endpoint = "confirm"
    /\ reply.status = 200
    /\ reply.body = <<[name |-> <<"f","l","o","u","r">>, quantity |-> 1 * Milli, unit |-> <<"k","g">>]>>
    /\ reply.added = <<[name |-> <<"f","l","o","u","r">>,
                        quantity |-> [num |-> 1 * Milli, unit |-> <<"k","g">>]]>>
    /\ \E i \in RowsOf(inventory, reply.user, <<"f","l","o","u","r">>) :
          inventory[i].quantity = 1000 * Milli /\ inventory[i].unit = s_gram

\* C14: a confirm returns its result, with every named ingredient of the
\* request accounted for in the added, reduced or deleted list, whatever
\* happens while one ingredient is processed.
C14_BatchNeverAborts ==
    reply.endpoint = "confirm"
        => /\ reply.status = 200
           /\ Len(reply.added) + Len(reply.reduced) + Len(reply.deleted)
                >= Cardinality({i \in DOMAIN reply.body :
                                   Strip(reply.body[i].name) # <<>>})

\* C15: no owner has two unchecked shopping-list entries whose names are
\* equal up to letter case.
C15_OneUncheckedPerName ==
    \A i, j \in DOMAIN shopping :
        (/\ shopping[i].user_id = shopping[j].user_id
         /\ shopping[i].checked = 0
         /\ shopping[j].checked = 0
         /\ Lower(shopping[i].name) = Lower(shopping[j].name))
        => i = j

\* ------------------------------------------------------------------------
\* Recipe requests and the guardrails

\* the request text once the allow-listed phrases are subtracted from it
Remainder(text) == RemoveExceptions(Strip(Lower(text)), 1)

\* text holds a blocked term of the request filter as a whole word
BlockedWordIn(text) == \E k \in DOMAIN BLOCKED_TERMS : WordSearch(BLOCKED_TERMS[k], text)

\* the request filter turns the preferences down
Rejected(preferences) == Truthy(preferences) /\ BlockedWordIn(Remainder(preferences))

\* a refusal payload of the guardrails: the ethical one, or the generic one
\* of a request or of a response
IsRefusal(recipe) ==
    recipe.name \in {get_ethical_response_for_illegal_item.name,
                     s_RequestCannotBeProcessed, s_ResponseCannotBeDisplayed}

\* the reply answers a recipe request of a user who has items in store
StockedRequest ==
    /\ reply.endpoint \in {"suggest_recipe", "generate_meal_plan"}
    /\ db_get_all_inventory(inventory, reply.user) # <<>>

\* C16: a suggest call whose preferences the request filter turns down does
\* not call the generative backend and returns a refusal payload of the
\* guardrails, the generic or the ethical one
C16_RejectedRequestGetsRefusal ==
    (/\ reply.endpoint = "suggest_recipe"
     /\ db_get_all_inventory(inventory, reply.user) # <<>>
     /\ Rejected(reply.preferences))
    => /\ ~reply.invoked
       /\ IsRefusal(reply.recipe)

\* every text the reply hands to the caller
ReturnedTexts ==
    {reply.text}
    \cup (IF reply.recipe = NoneDict THEN {}
          ELSE {reply.recipe.name, reply.recipe.description}
               \cup Range(reply.recipe.instructions))

\* C17: a recipe request that holds "human meat" is turned down before the
\* backend is called, the caller gets the ethical-refusal recipe, and no text
\* handed to the caller holds the word "human"
C17_HumanMeatGetsEthicalRefusal ==
    (StockedRequest /\ IsSubstr(<<"h","u","m","a","n"," ","m","e","a","t">>, Lower(reply.preferences)))
    => /\ ~reply.invoked
       /\ reply.recipe # NoneDict
       /\ reply.recipe.name = get_ethical_response_for_illegal_item.name
       /\ reply.recipe.description = get_ethical_response_for_illegal_item.description
       /\ \A t \in ReturnedTexts : ~IsSubstr(<<"h","u","m","a","n">>, Lower(t))

\* C18: a recipe request whose preferences hold no blocked term as a whole
\* word, or hold one only inside an allow-listed phrase, is not answered with
\* a refusal payload when the user has items in store
C18_LegitimateRequestNotRefused ==
    (StockedRequest /\ Truthy(reply.preferences) /\ ~BlockedWordIn(Remainder(reply.preferences)))
    => /\ reply.status = 200
       /\ ~IsRefusal(reply.recipe)

\* the filter's answer to the request reports it unsafe with the one fixed
\* message, which holds none of the terms the request matched
ReportedUnsafe ==
    /\ ~reply.safe
    /\ reply.reason = BlockedReason
    /\ \A k \in DOMAIN BLOCKED_TERMS :
          WordSearch(BLOCKED_TERMS[k], Lower(reply.preferences))
          => ~IsSubstr(BLOCKED_TERMS[k], Lower(reply.reason))

\* C19 as claimed: every request that holds a blocked term as a whole word, in
\* any letter case, is reported unsafe with the one fixed message
C19_BlockedWordReportedUnsafe ==
    (/\ reply.endpoint = "check_recipe_request_safety"
     /\ Truthy(reply.preferences)
     /\ BlockedWordIn(Lower(reply.preferences)))
    => ReportedUnsafe

\* C19: every request that still holds a blocked term as a whole word once
\* the allow-listed phrases are subtracted from its text, in any letter case
\* and with any spacing, is reported unsafe by the request filter, and the
\* message is the one fixed text, which holds none of the terms matched
C19_BlockedOutsideAllowListReportedUnsafe ==
    (reply.endpoint = "check_recipe_request_safety" /\ Rejected(reply.preferences))
    => ReportedUnsafe

C19_Witness ==
    /\ reply.endpoint = "check_recipe_request_safety"
    /\ reply.preferences = <<"H","u","m","a","n"," "," ","M","e","a","t">>
    /\ ~reply.safe
    /\ reply.reason = BlockedReason

\* the recipe holds a word of the blocklist in its name or in an instruction
BlocklistedWords(recipe) ==
    \E k \in DOMAIN BLOCKED_KEYWORDS :
        \/ WordSearch(BLOCKED_KEYWORDS[k], Lower(recipe.name))
        \/ \E i \in DOMAIN recipe.instructions :
              WordSearch(BLOCKED_KEYWORDS[k], Lower(recipe.instructions[i]))

\* the name of an ingredient of the recipe holds an illegal-item term
IllegalIngredient(recipe) ==
    \E k \in DOMAIN ILLEGAL_FOOD_ITEMS, i \in DOMAIN recipe.ingredients :
        IsSubstr(ILLEGAL_FOOD_ITEMS[k], Lower(recipe.ingredients[i].name))

Malformed(recipe) ==
    \/ recipe = EmptyDict
    \/ recipe # EmptyDict /\ recipe.name = NoneStr
    \/ recipe # EmptyDict /\ \E i \in DOMAIN recipe.ingredients : recipe.ingredients[i].quantity = NoneNum

BackendFailed(out) ==
    \/ out.kind \in {"error", "text"}
    \/ out.kind = "json" /\ Malformed(out.recipe)

\* C21: when the backend is called and raises an error or hands back a
\* malformed payload, the suggestion is the fallback recipe built from the
\* inventory (at most five items, each with min(on-hand, 2.0)), and a workflow
\* run that made the call ends with success set and no error
C21_BackendFailureGivesFallback ==
    (reply.call \in {"suggest_recipe", "planner_node"} /\ reply.invoked /\ BackendFailed(reply.out))
        => /\ reply.recipe = _create_fallback_recipe(reply.items, reply.servings, reply.preferences)
           /\ reply.call = "planner_node" => state.success /\ state.error = "None"

\* C22: a recipe that a suggestion returned is in the session's recipe cache
\* under its name, and applying that name afterwards finds it
C22_SuggestedRecipeCachedAndApplied ==
    /\ (pc = "suggested" /\ reply.call \in {"suggest_recipe", "planner_node"})
        => /\ InCache(procs.recipe_cache, reply.recipe.name)
           /\ CacheGet(procs.recipe_cache, reply.recipe.name) = reply.recipe
    /\ (pc = "applied" /\ reply.recipe_name = reply.recipe.name)
        => reply.result.found /\ reply.result.success

\* ------------------------------------------------------------------------
\* Properties of the shopping agent (ListSpec)

\* the entries of the generated list that bear the name
EntriesOf(name) == {i \in DOMAIN reply.list : reply.list[i].name = name}

\* the owner's rows
OwnRows == {i \in DOMAIN inventory : inventory[i].user_id = reply.user}

\* C23: the generated list holds exactly one entry for each item of the owner
\* whose quantity is at most its threshold (the one set for the item, else
\* 1.0) and none for any other item; an entry is of high priority iff the
\* item's quantity is 0 and of medium priority otherwise; the high entries
\* come before the medium ones, and the entries of one priority are in
\* ascending order of name
C23_ListHoldsLowItemsInOrder ==
    reply.call = "generate_shopping_list" =>
        /\ \A i \in OwnRows :
              Cardinality(EntriesOf(inventory[i].name))
                = IF inventory[i].quantity <= ThresholdOf(reply.thresholds, inventory[i].name)
                  THEN 1 ELSE 0
        /\ \A k \in DOMAIN reply.list :
              \E i \in OwnRows :
                  /\ inventory[i].name = reply.list[k].name
                  /\ reply.list[k].priority = IF inventory[i].quantity = 0 THEN "high" ELSE "medium"
        /\ \A k, l \in DOMAIN reply.list :
              k < l => /\ ~(reply.list[k].priority = "medium" /\ reply.list[l].priority = "high")
                       /\ reply.list[k].priority = reply.list[l].priority
                            => StrLess(reply.list[k].name, reply.list[l].name)

\* milk at 0 and eggs at 5 with no threshold set: one high entry, for milk
C23_Witness ==
    /\ reply.call = "generate_shopping_list"
    /\ reply.user = 1
    /\ reply.thresholds = <<>>
    /\ \E i \in OwnRows : inventory[i].name = <<"e","g","g","s">> /\ inventory[i].quantity = 5 * Milli
    /\ Len(reply.list) = 1
    /\ reply.list[1].name = <<"m","i","l","k">>
    /\ reply.list[1].priority = "high"

\* the list of an agent no threshold was set on is the one the workflow's
\* shopping node generates
ListAgreesWithWorkflow ==
    (reply.call = "generate_shopping_list" /\ reply.thresholds = <<>>)
        => reply.list = generate_shopping_list(inventory, reply.user)

\* ------------------------------------------------------------------------
\* Properties of the router (RouterSpec)

\* the intent of the synonym set a verb belongs to
VerbIntent(v) ==
    IF v \in ADD_SYNONYMS THEN "add" ELSE IF v \in REMOVE_SYNONYMS THEN "remove" ELSE "update"

\* C24: for every verb v of the add, remove and update synonym sets, the
\* command "v 2 cups rice" gets the intent of v's set, the item name "rice",
\* the quantity 2.0 and the unit "cups"
C24_EveryVerbClassifiedWithSlots ==
    \A v \in Verbs :
        (reply.call = "voice_router_node" /\ reply.command = v \o <<" ","2"," ","c","u","p","s"," ","r","i","c","e">>)
            => /\ state.command_type = VerbIntent(v)
               /\ state.item_name = <<"r","i","c","e">>
               /\ state.quantity = 2 * Milli
               /\ state.unit = <<"c","u","p","s">>

C24_Witness ==
    /\ reply.call = "voice_router_node"
    /\ reply.command = <<"w","i","t","h","d","r","a","w"," ","2"," ","c","u","p","s"," ","r","i","c","e">>
    /\ state.command_type = "remove"
    /\ state.item_name = <<"r","i","c","e">>

\* the token matches one of the recipe, shopping and inventory-list sets
FirstTier(tok) ==
    \/ _find_synonym_match(tok, RECIPE_SYNONYMS)
    \/ _find_synonym_match(tok, SHOPPING_SYNONYMS)
    \/ _find_synonym_match(tok, INVENTORY_SYNONYMS)

\* the token matches one of the add, remove and update sets
SecondTier(tok) ==
    \/ _find_synonym_match(tok, ADD_SYNONYMS)
    \/ _find_synonym_match(tok, REMOVE_SYNONYMS)
    \/ _find_synonym_match(tok, UPDATE_SYNONYMS)

\* C27: the intent is that of the leftmost token matching the recipe,
\* shopping or inventory-list set (tried in that order on the token), even
\* after an add, remove or update verb; when no token matches these, it is
\* that of the leftmost token matching the add, remove or update set (tried in
\* that order); when no token matches any set there is no intent, and the
\* router reports that it did not understand instead of raising
C27_FirstTierBeforeVerbs ==
    reply.call = "voice_router_node" =>
        IF \E i \in DOMAIN reply.tokens : FirstTier(reply.tokens[i])
        THEN \E i \in DOMAIN reply.tokens :
                /\ FirstTier(reply.tokens[i])
                /\ \A j \in 1..(i - 1) : ~FirstTier(reply.tokens[j])
                /\ state.command_type =
                      IF _find_synonym_match(reply.tokens[i], RECIPE_SYNONYMS) THEN "recipe"
                      ELSE IF _find_synonym_match(reply.tokens[i], SHOPPING_SYNONYMS) THEN "shopping"
                      ELSE "inventory"
        ELSE IF \E i \in DOMAIN reply.tokens : SecondTier(reply.tokens[i])
        THEN \E i \in DOMAIN reply.tokens :
                /\ SecondTier(reply.tokens[i])
                /\ \A j \in 1..(i - 1) : ~SecondTier(reply.tokens[j])
                /\ state.command_type =
                      IF _find_synonym_match(reply.tokens[i], ADD_SYNONYMS) THEN "add"
                      ELSE IF _find_synonym_match(reply.tokens[i], REMOVE_SYNONYMS) THEN "remove"
                      ELSE "update"
        ELSE /\ state.command_type = "None"
             /\ state.error = "I didn't understand that command."
             /\ ~state.success
             /\ reply.node = "error"

\* a recipe word after an add verb decides
C27_Witness ==
    /\ reply.call = "voice_router_node"
    /\ reply.command = <<"a","d","d"," ","r","i","c","e"," ","a","n","d"," ","c","o","o","k"," ","i","t">>
    /\ state.command_type = "recipe"
    /\ reply.node = "planner"

\* the tails that hold stopwords besides the item
StopwordTails == {<<" ","r","i","c","e"," ","t","o"," ","i","n","v","e","n","t","o","r","y">>, <<" ","2"," ","c","u","p","s"," ","r","i","c","e"," ","t","o"," ","m","y"," ","s","t","o","c","k">>, <<" ","a"," ","t","o","m","a","t","o">>}

\* C25: a command made of an add, remove or update verb, an optional quantity
\* and unit, an item name and stopwords ("add rice to inventory") gets the
\* verb's intent, goes to the inventory handler, and its item name holds none
\* of the stopwords
C25_StopwordCommandsReachInventory ==
    \A v \in Verbs, t \in StopwordTails :
        (reply.call = "voice_router_node" /\ reply.command = v \o t)
            => /\ state.command_type = VerbIntent(v)
               /\ reply.node = "inventory"
               /\ state.item_name \in {<<"r","i","c","e">>, <<"t","o","m","a","t","o">>}

\* ------------------------------------------------------------------------
\* Properties of the unit converter (UnitSpec)

\* C26: convert hands back the quantity unchanged when the two units have the
\* same canonical form, and None when either unit is unrecognized or the two
\* belong to different categories; it hands back a number only for two
\* recognized units of one category
C26_ConvertNoneAcrossCategories ==
    reply.call = "convert_to_unit" =>
        /\ (/\ UnitCategory(reply.from_unit) # "Unrecognized"
            /\ normalize_unit(reply.from_unit) = normalize_unit(reply.to_unit))
              => reply.result = reply.quantity
        /\ (\/ UnitCategory(reply.from_unit) = "Unrecognized"
            \/ UnitCategory(reply.to_unit) = "Unrecognized"
            \/ UnitCategory(reply.from_unit) # UnitCategory(reply.to_unit))
              => reply.result = NoneNum

\* ------------------------------------------------------------------------
\* Properties of the request guardrail (GuardSpec)

\* C28: a prompt that holds a restricted or illegal-food-item term is turned
\* down in the recipe context with the reason ILLEGAL_FOOD_ITEM, and
\* generate_recipe answers it with the ethical refusal
C28_RestrictedTermGetsEthicalRefusal ==
    (/\ reply.call = "generate_recipe"
     /\ \E term \in RestrictedTerms : WordSearch(term, Lower(reply.prompt)))
        => /\ ~reply.verdict.ok
           /\ reply.verdict.reason = s_ILLEGAL_FOOD_ITEM
           /\ reply.recipe = get_ethical_response_for_illegal_item
           /\ ~reply.invoked


\* ------------------------------------------------------------------------
\* Properties of the remove request and of commands without a unit (Spec)

\* the remove request of the endpoint is about to be handled; it carries a
\* quantity smaller than the quantity on hand of the item it matches
RemoveRequestOfPart ==
    /\ pc = "inventory"
    /\ req.endpoint = "remove"
    /\ req.quantity # NoneNum
    /\ Truthy(state.item_name)
    /\ Matched.kind = "item"
    /\ req.quantity < Matched.quantity

\* C29: a remove request with a quantity q smaller than the quantity h on hand
\* of the matched item leaves the item stored with h - q; the quantity of the
\* request is the quantity the inventory handler removes
C29_RemoveRequestKeepsRemainder ==
    [][RemoveRequestOfPart
         => /\ state.quantity = req.quantity
            /\ \E i \in RowsOf(inventory, req.user, Matched.name) :
                  /\ i \in DOMAIN inventory'
                  /\ inventory'[i] =
                        [inventory[i] EXCEPT !.quantity = @ - req.quantity]]_vars

\* the inventory node is about to run a command that names an item and no
\* unit, and that no rule other than one about units turns down: an add, a
\* remove of an item that exists of no more than is on hand, or an update of
\* an item that exists to a given quantity
NoUnitCommand ==
    /\ pc = "inventory"
    /\ Truthy(state.item_name)
    /\ state.unit = NoneStr
    /\ \/ state.command_type = "add"
       \/ /\ state.command_type = "remove"
          /\ Matched.kind = "item"
          /\ (state.quantity = NoneNum \/ state.quantity <= Matched.quantity)
       \/ /\ state.command_type = "update"
          /\ Matched.kind = "item"
          /\ state.quantity # NoneNum

\* C30: an add, remove or update command that names an item and gives no unit
\* is carried out with the unit "units" and ends with success; normalizing an
\* absent unit raises nothing
C30_NoUnitCommandSucceeds ==
    [][NoUnitCommand
         => /\ state'.success
            /\ state'.error = "None"
            /\ (state.command_type = "add" /\ Matched.kind # "item")
                  => \E r \in Range(inventory') :
                        /\ r.user_id = req.user
                        /\ r.name = Strip(Lower(state.item_name))
                        /\ r.unit = s_units]_vars

====
